---- MODULE Spec2Model ----
(***************************************************************************)
(* Model of the spoty2deezer matching engine (front/src/services/          *)
(* deezerService.ts) and of the LinkConverter component that fans a        *)
(* conversion out to two target platforms.                                 *)
(*                                                                         *)
(* Strings are sequences of one-character strings.  Scores are kept        *)
(* multiplied by 100 so that the weights 0.55, 0.45 and 1.2 stay integers: *)
(* a score s of the code is the integer 100*s here.  For every pair of     *)
(* integer similarities in 0..100 and every duration bonus the IEEE double *)
(* the code computes lies on the same side of the threshold 40 as the      *)
(* exact value, so the scaling does not change any classification.         *)
(***************************************************************************)
EXTENDS Integers, Sequences, FiniteSets, TLC

\* ------------------------------------------------------------------------
\* Characters and JavaScript string primitives
\* ------------------------------------------------------------------------

UpperChars == <<"A","B","C","D","E","F","G","H","I","J","K","L","M",
                "N","O","P","Q","R","S","T","U","V","W","X","Y","Z">>

LowerChars == <<"a","b","c","d","e","f","g","h","i","j","k","l","m",
                "n","o","p","q","r","s","t","u","v","w","x","y","z">>

DigitChars == {"0","1","2","3","4","5","6","7","8","9"}

Range(f) == {f[i] : i \in DOMAIN f}

\* String.prototype.toLowerCase on one character
LowerOf(c) ==
    IF c \in Range(UpperChars)
    THEN LowerChars[CHOOSE i \in DOMAIN UpperChars : UpperChars[i] = c]
    ELSE IF c = "É" THEN "é" ELSE c

ToLowerCase(s) == [i \in DOMAIN s |-> LowerOf(s[i])]

\* \w of a JavaScript regular expression without the u flag: [A-Za-z0-9_]
IsWord(c) == c \in Range(UpperChars) \cup Range(LowerChars) \cup DigitChars \cup {"_"}

\* \s of a JavaScript regular expression
IsSpace(c) == c \in {" ", "\t", "\n"}

\* characters the regular expression dot does not match
IsLineTerminator(c) == c = "\n"

\* first index >= i of s that does not hold a whitespace character
RECURSIVE SkipSpaces(_, _)
SkipSpaces(s, i) ==
    IF i <= Len(s) /\ IsSpace(s[i]) THEN SkipSpaces(s, i + 1) ELSE i

\* index of the first `close` after position j reachable by a lazy .*?
\* (0 when a line terminator or the end of the string comes first)
RECURSIVE FindClose(_, _, _)
FindClose(s, j, close) ==
    IF j > Len(s) THEN 0
    ELSE IF s[j] = close THEN j
    ELSE IF IsLineTerminator(s[j]) THEN 0
    ELSE FindClose(s, j + 1, close)

\* s.replace(/\s*<open>.*?<close>\s*/g, "")
RECURSIVE RemoveGroups(_, _, _, _)
RemoveGroups(s, i, open, close) ==
    IF i > Len(s) THEN <<>>
    ELSE LET j == SkipSpaces(s, i)
             k == IF j <= Len(s) /\ s[j] = open
                  THEN FindClose(s, j + 1, close) ELSE 0
         IN IF k # 0
            THEN RemoveGroups(s, SkipSpaces(s, k + 1), open, close)
            ELSE <<s[i]>> \o RemoveGroups(s, i + 1, open, close)

\* s.replace(/[^\w\s]/g, "")
StripSpecial(s) == SelectSeq(s, LAMBDA c : IsWord(c) \/ IsSpace(c))

\* s.replace(/\s+/g, " ")
RECURSIVE CollapseSpaces(_, _)
CollapseSpaces(s, i) ==
    IF i > Len(s) THEN <<>>
    ELSE IF IsSpace(s[i])
         THEN <<" ">> \o CollapseSpaces(s, SkipSpaces(s, i))
         ELSE <<s[i]>> \o CollapseSpaces(s, i + 1)

\* String.prototype.trim
RECURSIVE Trim(_)
Trim(s) ==
    IF s = <<>> THEN s
    ELSE IF IsSpace(s[1]) THEN Trim(Tail(s))
    ELSE IF IsSpace(s[Len(s)]) THEN Trim(SubSeq(s, 1, Len(s) - 1))
    ELSE s

\* String.prototype.includes
Includes(s, sub) ==
    \E i \in 1..(Len(s) - Len(sub) + 1) : SubSeq(s, i, i + Len(sub) - 1) = sub

\* the value `undefined` where the code expects a string; template
\* interpolation and String() turn it into the text "undefined"
Undefined == <<"<undefined>">>

UndefinedText == <<"u","n","d","e","f","i","n","e","d">>

\* !x for a string-or-undefined value
Falsy(x) == x = Undefined \/ x = <<>>

TemplateText(x) == IF x = Undefined THEN UndefinedText ELSE x

\* ------------------------------------------------------------------------
\* DeezerService.normalizeString / calculateSimilarity
\* ------------------------------------------------------------------------

\* normalization that leaves parenthesized and bracketed groups in place
normalizeString_KeepGroups(str) ==
    IF Falsy(str) THEN <<>>
    ELSE Trim(CollapseSpaces(StripSpecial(ToLowerCase(str)), 1))

\* normalization that trims before the special characters are removed
normalizeString_TrimFirst(str) ==
    IF Falsy(str) THEN <<>>
    ELSE CollapseSpaces(
             StripSpecial(
                 Trim(RemoveGroups(
                          RemoveGroups(ToLowerCase(str), 1, "(", ")"),
                          1, "[", "]"))),
             1)

normalizeString(str) ==
    IF Falsy(str) THEN <<>>
    ELSE Trim(CollapseSpaces(
             StripSpecial(
                 RemoveGroups(
                     RemoveGroups(ToLowerCase(str), 1, "(", ")"),
                     1, "[", "]")),
             1))

Min2(a, b) == IF a <= b THEN a ELSE b

Max2(a, b) == IF a >= b THEN a ELSE b

\* one row of the edit-distance table; acc[k] is column k-1 of the new row
RECURSIVE LevRow(_, _, _, _)
LevRow(prev, c, b, acc) ==
    IF Len(acc) = Len(b) + 1 THEN acc
    ELSE LET j == Len(acc)
             cost == IF b[j] = c THEN 0 ELSE 1
             v == Min2(Min2(prev[j + 1] + 1, acc[j] + 1), prev[j] + cost)
         IN LevRow(prev, c, b, Append(acc, v))

RECURSIVE LevRows(_, _, _, _)
LevRows(a, b, i, prev) ==
    IF i > Len(a) THEN prev[Len(b) + 1]
    ELSE LevRows(a, b, i + 1, LevRow(prev, a[i], b, <<i>>))

\* levenshtein.get(a, b) of fast-levenshtein
Levenshtein(a, b) == LevRows(a, b, 1, [k \in 1..(Len(b) + 1) |-> k - 1])

\* Math.round(x / y * 100) for x >= 0, y > 0 (halves round up)
RoundPercent(x, y) == (200 * x + y) \div (2 * y)

\* similarity that counts the characters of both strings
SimilarityOfNormalized_BothLengths(normalized1, normalized2) ==
    IF normalized1 = normalized2 THEN 100
    ELSE IF Max2(Len(normalized1), Len(normalized2)) = 0 THEN 100
    ELSE RoundPercent(Len(normalized1) + Len(normalized2)
                          - Levenshtein(normalized1, normalized2),
                      Max2(Len(normalized1), Len(normalized2)))

\* lines 689-699, for the two normalized strings
SimilarityOfNormalized(normalized1, normalized2) ==
    IF normalized1 = normalized2 THEN 100
    ELSE IF Max2(Len(normalized1), Len(normalized2)) = 0 THEN 100
    ELSE RoundPercent(Max2(Len(normalized1), Len(normalized2))
                          - Levenshtein(normalized1, normalized2),
                      Max2(Len(normalized1), Len(normalized2)))

\* similarity that normalizes its first argument only
calculateSimilarity_SecondAsIs(str1, str2) ==
    IF Falsy(str1) \/ Falsy(str2) THEN 0
    ELSE SimilarityOfNormalized(normalizeString(str1), str2)

calculateSimilarity(str1, str2) ==
    IF Falsy(str1) \/ Falsy(str2) THEN 0
    ELSE SimilarityOfNormalized(normalizeString(str1), normalizeString(str2))

\* ------------------------------------------------------------------------
\* Records
\* ------------------------------------------------------------------------

\* a source without a numeric `duration` property
NoDuration == -1

\* the argument of findTrackMatches / findBestMatches; duration, when the
\* property is present, is in milliseconds (the code divides it by 1000)
SourceTrack(name, artists, duration) ==
    [name |-> name, artists |-> artists, duration |-> duration]

\* a DeezerTrack as far as matching reads it; duration is in seconds and
\* 0 stands for an absent one
Track(id, title, artist, duration) ==
    [id |-> id, title |-> title, artist |-> artist, duration |-> duration]

\* a null entry of a result list
Null == [null |-> TRUE]

\* { ...m.track, isHighQuality: q }
WithQuality(t, q) ==
    [id |-> t.id, title |-> t.title, artist |-> t.artist,
     duration |-> t.duration, isHighQuality |-> q]

\* ------------------------------------------------------------------------
\* DeezerService.findBestMatches
\* ------------------------------------------------------------------------

\* const threshold = 40, on the scale of the scores (x 100)
threshold == 4000

\* artists.length > 0 && artists[0]
hasArtist(sourceTrack) ==
    Len(sourceTrack.artists) > 0 /\ ~Falsy(sourceTrack.artists[1])

\* result.title || ""
TitleOrEmpty(result) == IF Falsy(result.title) THEN <<>> ELSE result.title

\* both similarities weighted alike
ArtistTitleScore_EqualWeights(artistSimilarity, titleSimilarity) ==
    artistSimilarity * 50 + titleSimilarity * 50

\* lines 892-902: the weighted score, x 100
ArtistTitleScore(artistSimilarity, titleSimilarity) ==
    artistSimilarity * 55 + titleSimilarity * 45

\* lines 910-927: the title-only score, x 100
TitleOnlyScore(titleSimilarity, normalizedSpotify, normalizedDeezer) ==
    IF normalizedSpotify # <<>> /\ normalizedDeezer # <<>>
    THEN IF Includes(normalizedDeezer, normalizedSpotify)
            \/ Includes(normalizedSpotify, normalizedDeezer)
         THEN titleSimilarity * 120
         ELSE titleSimilarity * 100
    ELSE titleSimilarity * 100

\* the score before the duration bonus, x 100
BaseScore(sourceTrack, result) ==
    IF hasArtist(sourceTrack) /\ ~Falsy(result.artist)
    THEN ArtistTitleScore(
             calculateSimilarity(sourceTrack.artists[1], result.artist),
             calculateSimilarity(sourceTrack.name, TitleOrEmpty(result)))
    ELSE TitleOnlyScore(
             calculateSimilarity(sourceTrack.name, TitleOrEmpty(result)),
             normalizeString(sourceTrack.name),
             normalizeString(TitleOrEmpty(result)))

Abs(x) == IF x < 0 THEN -x ELSE x

\* the bonus with its two limits included
DurationBonus_Inclusive(sourceTrack, result) ==
    IF sourceTrack.duration # NoDuration /\ result.duration # 0
    THEN IF Abs(sourceTrack.duration - result.duration * 1000) <= 5000 THEN 500
         ELSE IF Abs(sourceTrack.duration - result.duration * 1000) <= 15000 THEN 200
         ELSE 0
    ELSE 0

\* the duration bonus, x 100; the difference is compared in milliseconds,
\* which is Math.abs(sourceTrack.duration / 1000 - result.duration) x 1000
DurationBonus(sourceTrack, result) ==
    IF sourceTrack.duration # NoDuration /\ result.duration # 0
    THEN LET durationDiff == Abs(sourceTrack.duration - result.duration * 1000)
         IN IF durationDiff < 5000 THEN 500
            ELSE IF durationDiff < 15000 THEN 200
            ELSE 0
    ELSE 0

MatchScore(sourceTrack, result) ==
    BaseScore(sourceTrack, result) + DurationBonus(sourceTrack, result)

\* track.artist?.name || "Unknown Artist"
UnknownArtist == <<"U","n","k","n","o","w","n"," ","A","r","t","i","s","t">>

MapApiTrack(track) ==
    Track(track.id, track.title,
          IF Falsy(track.artist) THEN UnknownArtist ELSE track.artist,
          track.duration)

\* this.searchTrack(query, 3)
TrackSearchLimit == 3

\* ------------------------------------------------------------------------
\* Inputs of the matching engine
\* ------------------------------------------------------------------------

Hello == <<"H","e","l","l","o">>

Hallo == <<"H","a","l","l","o">>

Adele == <<"A","d","e","l","e">>

Intro == <<"I","n","t","r","o">>

\* number of distinct track ids the platform can answer with
NumIds == 6

\* the track the source is looking for, under id i
Exact(i) == Track(i, Hello, Adele, 295)

\* the tracks a search response can carry: NumIds exact hits, a second
\* version of id 1 with a misspelt title, and under id 2 an unrelated track
\* that has no artist name
Pool ==
    {Exact(i) : i \in 1..NumIds}
    \cup {Track(1, Hallo, Adele, 295), Track(2, Intro, Undefined, 0)}

\* sequences over S of length at most n
RECURSIVE SeqsUpTo(_, _)
SeqsUpTo(S, n) ==
    IF n = 0 THEN {<<>>}
    ELSE LET shorter == SeqsUpTo(S, n - 1)
         IN shorter \cup {Append(q, x) : q \in {r \in shorter : Len(r) = n - 1}, x \in S}

DataResponse(data) == [kind |-> "data", data |-> data]

\* the bodies the platform answers a search of findTrackMatches with (it
\* honours the limit of the request), and the ways the transport fails
Responses ==
    {DataResponse(d) : d \in SeqsUpTo(Pool, TrackSearchLimit)}
    \cup {DataResponse(<<Null>>), DataResponse(<<Exact(1), Null>>)}
    \cup {[kind |-> k, data |-> <<>>] : k \in {"reject", "error", "invalid"}}

Spaces == <<" "," ">>

Sources ==
    {SourceTrack(Hello, <<Adele>>, 295000),
     SourceTrack(Intro, <<>>, NoDuration),
     SourceTrack(Hello, <<UndefinedText>>, NoDuration),
     SourceTrack(<<>>, <<>>, NoDuration),
     SourceTrack(Undefined, <<Adele>>, NoDuration),
     SourceTrack(Undefined, <<>>, NoDuration),
     SourceTrack(<<>>, <<<<>>>>, NoDuration),
     SourceTrack(Spaces, <<<<>>>>, NoDuration)}

\* what a direct searchTrack call is answered with
DirectResponses ==
    {DataResponse(<<>>), DataResponse(<<Exact(1)>>), DataResponse(<<Exact(1), Null>>)}
    \cup {[kind |-> k, data |-> <<>>] : k \in {"reject", "error", "invalid"}}

\* queries and limits of a direct searchTrack call
DirectQueries ==
    {<<>>, Spaces, Undefined, UndefinedText, Adele \o <<" ">> \o UndefinedText,
     Hello, <<" ">> \o Hello \o <<" ">>}

\* limit = 10 is the parameter's default
DirectLimits == {1, 3, 5, 6, 10}

Heavy == <<"H","e","a","v","y">>

\* source durations in milliseconds: 0, and 295 s less 15 s, 14.999 s, 5 s,
\* 4.999 s and nothing
BestDurations == {NoDuration, 0, 280000, 280001, 290000, 290001, 295000}

HelloWorld == Hello \o <<" ","W","o","r","l","d">>

\* two titles that normalize to the empty string
Bang == <<"!">>

Question == <<"?">>

\* the sources findBestMatches is applied to on its own: with and without
\* an artist, with an empty first artist, with a title of punctuation
BestSources ==
    {SourceTrack(Hello, artists, duration) :
        artists \in {<<>>, <<Adele>>}, duration \in BestDurations}
    \cup {SourceTrack(Hello, <<<<>>>>, NoDuration), SourceTrack(Bang, <<>>, NoDuration)}

\* the results it is applied to: with and without an artist, with and
\* without a duration
BestTracks ==
    {Track(1, title, artist, duration) :
        title \in {Hello, Heavy, Intro}, artist \in {Adele, <<>>},
        duration \in {0, 3, 295}}
    \cup {Track(1, HelloWorld, Adele, 0), Track(1, HelloWorld, <<>>, 0),
          Track(1, Question, <<>>, 0)}

\* longest results array findBestMatches is applied to on its own
MaxResults == 2

BestInputs ==
    {[results |-> results, sourceTrack |-> sourceTrack] :
        results \in SeqsUpTo(BestTracks \cup {Null}, MaxResults),
        sourceTrack \in BestSources}

HelloLive == Hello \o <<" ","(","L","i","v","e",")">>

\* Scenario A: "Hello" by Adele, with and without a duration of 295 s
ScenarioSources ==
    {SourceTrack(Hello, <<Adele>>, NoDuration), SourceTrack(Hello, <<Adele>>, 295000)}

\* the exact match under id 1, the live version under id 2, each with and
\* without its duration, and a misspelt title under id 3
ScenarioPool ==
    {Track(1, Hello, Adele, 0), Track(1, Hello, Adele, 295),
     Track(2, HelloLive, Adele, 0), Track(2, HelloLive, Adele, 295),
     Track(3, Hallo, Adele, 0)}

\* longest answer to a search of the scenario
ScenarioLimit == 2

ScenarioResponses ==
    {DataResponse(d) : d \in SeqsUpTo(ScenarioPool, ScenarioLimit)}
    \cup {[kind |-> "reject", data |-> <<>>]}

\* MatchScore, computed once for the sources and tracks of the model
ScoreTable ==
    [s \in Sources \cup BestSources \cup ScenarioSources |->
        [t \in {MapApiTrack(a) : a \in Pool} \cup BestTracks \cup ScenarioPool |->
            MatchScore(s, t)]]

ScoreOf(sourceTrack, result) ==
    IF sourceTrack \in DOMAIN ScoreTable
       /\ result \in DOMAIN ScoreTable[sourceTrack]
    THEN ScoreTable[sourceTrack][result]
    ELSE MatchScore(sourceTrack, result)

\* a strict comparison with the threshold
Classify_Strict(score) == score > threshold

\* score >= threshold ? highQuality : exploreMore
Classify(score) == score >= threshold

\* the ScoredTrack pushed for one result (lines 948-952)
ScoredTrack(result, score) ==
    [track |-> result, score |-> score, isHighQuality |-> Classify(score)]

Scored(sourceTrack, result) == ScoredTrack(result, ScoreOf(sourceTrack, result))

\* the two local arrays, out of the scored results in their order
Categorize(scored) ==
    [highQuality |-> SelectSeq(scored, LAMBDA m : m.isHighQuality),
     exploreMore |-> SelectSeq(scored, LAMBDA m : ~m.isHighQuality)]

\* results without its null entries (line 885)
Present(results) == SelectSeq(results, LAMBDA r : r # Null)

\* the local arrays highQuality and exploreMore after the loop
ScoreResults(results, sourceTrack) ==
    Categorize([i \in DOMAIN Present(results) |->
                   Scored(sourceTrack, Present(results)[i])])

\* lines 954-964: the tracks of both arrays, tagged, without their scores
TagTracks(scored) ==
    [highQuality |->
        [i \in DOMAIN scored.highQuality |->
            WithQuality(scored.highQuality[i].track, TRUE)],
     exploreMore |->
        [i \in DOMAIN scored.exploreMore |->
            WithQuality(scored.exploreMore[i].track, FALSE)]]

findBestMatches(results, sourceTrack) ==
    TagTracks(ScoreResults(results, sourceTrack))

\* ------------------------------------------------------------------------
\* DeezerService.searchTrack
\* ------------------------------------------------------------------------

\* the guard with its test for the text "undefined" alone
InvalidQuery_OnlyUndefinedTest(query) == Includes(query, UndefinedText)

\* the guard without its test for the text "undefined"
InvalidQuery_NoUndefinedTest(query) ==
    Falsy(query) \/ Trim(query) = <<>>

\* !query || query.trim() === "" || query.includes("undefined")
InvalidQuery(query) ==
    Falsy(query) \/ Trim(query) = <<>> \/ Includes(query, UndefinedText)

\* Math.min(limit, 5)
MaxSearchLimit == 5

\* the request searchTrack hands to fetchWithProxy
SearchRequest(query, limit) ==
    [q |-> Trim(query), limit |-> Min2(limit, MaxSearchLimit)]

\* What fetchWithProxy settles with, and what searchTrack makes of it:
\*   "reject"  fetchWithProxy rejects (network error, timeout, HTTP status)
\*   "error"   the body is an object with an `error` property
\*   "invalid" the body has no `data` array
\*   "data"    the body carries a `data` array; a null entry makes the map
\*             callback throw a TypeError
\* Every throw lands in searchTrack's catch, which rethrows an Error.
searchTrackSettles(response) ==
    IF response.kind = "data" /\ \A i \in DOMAIN response.data : response.data[i] # Null
    THEN [status |-> "resolved",
          value |-> [i \in DOMAIN response.data |-> MapApiTrack(response.data[i])]]
    ELSE [status |-> "rejected", value |-> <<>>]

\* ------------------------------------------------------------------------
\* DeezerService.findTrackMatches
\* ------------------------------------------------------------------------

\* the queries with the title alone first
SearchQueries_TitleFirst(sourceTrack) ==
    <<sourceTrack.name>>
    \o (IF hasArtist(sourceTrack)
        THEN <<sourceTrack.artists[1] \o <<" ">> \o TemplateText(sourceTrack.name)>>
        ELSE <<>>)

\* `${artists[0]} ${name}` when a primary artist exists, then name
SearchQueries(sourceTrack) ==
    (IF hasArtist(sourceTrack)
     THEN <<sourceTrack.artists[1] \o <<" ">> \o TemplateText(sourceTrack.name)>>
     ELSE <<>>)
    \o <<sourceTrack.name>>

\* a map that keeps the first value set under a key
RECURSIVE MapSetAll_KeepFirst(_, _)
MapSetAll_KeepFirst(map, tracks) ==
    IF tracks = <<>> THEN map
    ELSE MapSetAll_KeepFirst(
             IF \E i \in DOMAIN map : map[i].id = Head(tracks).id
             THEN map
             ELSE Append(map, Head(tracks)),
             Tail(tracks))

\* an array in place of the map: every track is kept
MapSetAll_KeepAll(map, tracks) == map \o tracks

\* new Map(): set(track.id, track) for every track in order; a key that is
\* already present keeps its place and takes the new value
RECURSIVE MapSetAll(_, _)
MapSetAll(map, tracks) ==
    IF tracks = <<>> THEN map
    ELSE LET track == Head(tracks)
             at == {i \in DOMAIN map : map[i].id = track.id}
         IN MapSetAll(IF at = {} THEN Append(map, track)
                      ELSE [map EXCEPT ![CHOOSE i \in at : TRUE] = track],
                      Tail(tracks))

\* the cap on the returned records: .slice(0, 5)
MaxMatches == 5

\* the whole array in place of its first n entries
Slice_All(s, n) == s

\* Array.prototype.slice(0, n)
Slice(s, n) == SubSeq(s, 1, Min2(n, Len(s)))

\* both tiers returned together
SelectMatches_BothTiers(matches) ==
    Slice(MapSetAll(<<>>, matches.highQuality)
              \o MapSetAll(<<>>, matches.exploreMore),
          MaxMatches)

\* no fallback to the exploreMore tier
SelectMatches_NoFallback(matches) ==
    Slice(MapSetAll(<<>>, matches.highQuality), MaxMatches)

\* lines 836-858: deduplicate each tier by id, return one tier
SelectMatches(matches) ==
    LET uniqueHighQuality == MapSetAll(<<>>, matches.highQuality)
        uniqueExploreMore == MapSetAll(<<>>, matches.exploreMore)
    IN IF Len(uniqueHighQuality) > 0 THEN Slice(uniqueHighQuality, MaxMatches)
       ELSE IF Len(uniqueExploreMore) > 0 THEN Slice(uniqueExploreMore, MaxMatches)
       ELSE <<>>

\* lines 827-828: push(...matches.highQuality), push(...matches.exploreMore)
PushMatches(matches, found) ==
    [highQuality |-> matches.highQuality \o found.highQuality,
     exploreMore |-> matches.exploreMore \o found.exploreMore]

\* the search awaited outside any try/catch: a rejection propagates
AfterSearch_NoCatch(matches, sourceTrack, settled) ==
    IF settled.status = "resolved" /\ Len(settled.value) > 0
    THEN [thrown |-> FALSE,
          allMatches |->
              PushMatches(matches, findBestMatches(settled.value, sourceTrack))]
    ELSE [thrown |-> settled.status = "rejected", allMatches |-> matches]

\* the try/catch around one search (lines 821-833): a resolved, non-empty
\* result list is scored and pushed, a rejection is logged and swallowed
AfterSearch(matches, sourceTrack, settled) ==
    IF settled.status = "resolved" /\ Len(settled.value) > 0
    THEN [thrown |-> FALSE,
          allMatches |->
              PushMatches(matches, findBestMatches(settled.value, sourceTrack))]
    ELSE [thrown |-> FALSE, allMatches |-> matches]

\* ------------------------------------------------------------------------
\* The matching engine as a process.  A step is what JavaScript runs
\* without interruption: from a call or from the settling of an awaited
\* promise to the next await or to the return.
\* ------------------------------------------------------------------------

VARIABLES
    pc,          \* "idle", "awaitFetch", "done"
    caller,      \* the method the client called
    source,      \* the sourceTrack argument of findTrackMatches
    qi,          \* position of the for-of loop in searchQueries
    allMatches,  \* the accumulator of findTrackMatches
    searchLog,   \* every searchTrack call: query, limit, how it settled
    fetchLog,    \* every request handed to fetchWithProxy
    outcome,     \* how the called method settled
    bestArgs,    \* findBestMatches on its own: its arguments
    bestLocals,  \*   its local arrays highQuality and exploreMore
    bestReturn,  \*   what it returned
    inputUrl,    \* LinkConverter: the state inputUrl
    loading,     \*   the state loading
    error,       \*   the state error
    resultState, \*   the state result
    conversions, \*   the two promises handed to Promise.all
    promiseAll,  \*   the promise Promise.all returned
    abandoned,   \*   convert calls of earlier conversions that are still pending
    proxyPc,     \* GET /proxy: "idle", "awaitUpstream", "done"
    proxyUrl,    \*   req.query.url
    upstreamHosts, \* the hosts requests were sent to, in order
    proxyStatus, \*   the status of the response to the client
    proxyResponses, \* the responses sent to the client, in order
    answersLog,  \*   what came back from upstream, in order
    redirects,   \*   redirects followed so far by axios.get
    fnName,      \* a function called on its own: its name
    fnArgs,      \*   its arguments
    fnResult,    \*   what it returned
    fwPc,        \* fetchWithProxy: "idle", "awaitAttempt", "awaitTimer", "done"
    fwOptions,   \*   maxRetries and retryDelay after the defaults
    attempt,     \*   the loop variable attempt
    attemptLog,  \*   the requests, their results and the waits, in order
    fwOutcome,   \*   how the returned promise settled
    gtPc,        \* getTrack: "idle", "awaitPage", "awaitTrack", "done"
    gtTrackId,   \*   the trackId argument
    gtPage,      \*   what was parsed from the page of a short link
    gtFetches,   \*   the URLs handed to fetchWithProxy
    gtOutcome    \*   how the returned promise settled

engineVars ==
    <<pc, caller, source, qi, allMatches, searchLog, fetchLog, outcome>>

bestVars == <<bestArgs, bestLocals, bestReturn>>

uiVars == <<inputUrl, loading, error, resultState, conversions, promiseAll, abandoned>>

proxyVars == <<proxyPc, proxyUrl, upstreamHosts, proxyStatus, redirects, proxyResponses, answersLog>>

callVars == <<fnName, fnArgs, fnResult>>

retryVars == <<fwPc, fwOptions, attempt, attemptLog, fwOutcome>>

trackVars == <<gtPc, gtTrackId, gtPage, gtFetches, gtOutcome>>

\* what the steps of one component leave alone
exceptEngine == <<bestVars, uiVars, proxyVars, callVars, retryVars, trackVars>>

exceptBest == <<engineVars, uiVars, proxyVars, callVars, retryVars, trackVars>>

exceptUi == <<engineVars, bestVars, proxyVars, callVars, retryVars, trackVars>>

exceptProxy == <<engineVars, bestVars, uiVars, callVars, retryVars, trackVars>>

exceptCall == <<engineVars, bestVars, uiVars, proxyVars, retryVars, trackVars>>

exceptRetry == <<engineVars, bestVars, uiVars, proxyVars, callVars, trackVars>>

exceptTrack == <<engineVars, bestVars, uiVars, proxyVars, callVars, retryVars>>

NoSource == SourceTrack(<<>>, <<>>, NoDuration)

Pending == [status |-> "pending", value |-> <<>>]

Rejected == [status |-> "rejected", value |-> <<>>]

Resolved(value) == [status |-> "resolved", value |-> value]

EngineInit ==
    /\ pc = "idle"
    /\ caller = "none"
    /\ source = NoSource
    /\ qi = 1
    /\ allMatches = [highQuality |-> <<>>, exploreMore |-> <<>>]
    /\ searchLog = <<>>
    /\ fetchLog = <<>>
    /\ outcome = Pending

NotCalled == [called |-> FALSE]

BestIdle ==
    /\ bestArgs = NotCalled
    /\ bestLocals = NotCalled
    /\ bestReturn = NotCalled

\* a URL as the parsers of urlParser.ts see it
Url(kind) == [kind |-> kind]

NoResult == [null |-> TRUE]

UiIdle ==
    /\ inputUrl = Url("empty")
    /\ loading = FALSE
    /\ error = ""
    /\ resultState = NoResult
    /\ conversions = <<>>
    /\ promiseAll = "none"
    /\ abandoned = 0

NoStatus == 0

ProxyIdle ==
    /\ proxyPc = "idle"
    /\ proxyUrl = NotCalled
    /\ upstreamHosts = <<>>
    /\ proxyStatus = NoStatus
    /\ redirects = 0
    /\ proxyResponses = <<>>
    /\ answersLog = <<>>

CallIdle ==
    /\ fnName = "none"
    /\ fnArgs = NotCalled
    /\ fnResult = NotCalled

\* everything but the matching engine is at rest
RetryIdle ==
    /\ fwPc = "idle"
    /\ fwOptions = NotCalled
    /\ attempt = 0
    /\ attemptLog = <<>>
    /\ fwOutcome = Pending

TrackIdle ==
    /\ gtPc = "idle"
    /\ gtTrackId = NotCalled
    /\ gtPage = NotCalled
    /\ gtFetches = <<>>
    /\ gtOutcome = Pending

RestIdle == BestIdle /\ UiIdle /\ ProxyIdle /\ CallIdle /\ RetryIdle /\ TrackIdle

\* searchTrack up to its await (lines 708-726): an invalid query throws
\* before any request, a valid one is handed to fetchWithProxy
searchTrackCall(query, limit) ==
    IF InvalidQuery(query)
    THEN [rejected |-> TRUE, requests |-> <<>>]
    ELSE [rejected |-> FALSE, requests |-> <<SearchRequest(query, limit)>>]

SearchEntry(query, limit, status) ==
    [query |-> query, limit |-> limit, status |-> status, value |-> <<>>]

\* the for-of loop (lines 817-834) from position i up to its next await:
\* a query the guard refuses is skipped, a searchTrack call that throws at
\* once is caught, a call that awaits suspends the loop; past the last query
\* the loop is over
RECURSIVE RunLoop(_, _, _, _)
RunLoop(queries, i, log, requests) ==
    IF i > Len(queries)
    THEN [pc |-> "done", qi |-> i, searchLog |-> log, fetchLog |-> requests]
    ELSE IF InvalidQuery(queries[i])
    THEN RunLoop(queries, i + 1, log, requests)
    ELSE IF searchTrackCall(queries[i], TrackSearchLimit).rejected
    THEN RunLoop(queries, i + 1,
                 Append(log, SearchEntry(queries[i], TrackSearchLimit, "rejected")),
                 requests)
    ELSE [pc |-> "awaitFetch", qi |-> i,
          searchLog |->
              Append(log, SearchEntry(queries[i], TrackSearchLimit, "pending")),
          fetchLog |->
              requests \o searchTrackCall(queries[i], TrackSearchLimit).requests]

\* findTrackMatches goes on to its next await, or past the loop to its
\* return (lines 836-858)
Proceed(run, matches) ==
    /\ pc' = run.pc
    /\ qi' = run.qi
    /\ searchLog' = run.searchLog
    /\ fetchLog' = run.fetchLog
    /\ allMatches' = matches
    /\ outcome' = IF run.pc = "done" THEN Resolved(SelectMatches(matches))
                  ELSE outcome

\* a client calls findTrackMatches(track)
FindTrackMatches(track) ==
    /\ pc = "idle"
    /\ caller' = "findTrackMatches"
    /\ source' = track
    /\ Proceed(RunLoop(SearchQueries(track), 1, searchLog, fetchLog), allMatches)
    /\ UNCHANGED exceptEngine

\* a client calls searchTrack(query, limit) itself
DirectCall(query, limit, call) ==
    /\ caller' = "searchTrack"
    /\ searchLog' = Append(searchLog,
           SearchEntry(query, limit,
                       IF call.rejected THEN "rejected" ELSE "pending"))
    /\ fetchLog' = fetchLog \o call.requests
    /\ pc' = IF call.rejected THEN "done" ELSE "awaitFetch"
    /\ outcome' = IF call.rejected THEN Rejected ELSE outcome
    /\ UNCHANGED <<source, qi, allMatches>>

SearchTrack(query, limit) ==
    /\ pc = "idle"
    /\ DirectCall(query, limit, searchTrackCall(query, limit))
    /\ UNCHANGED exceptEngine

\* the log with its last entry settled
Settle(log, settled) ==
    [log EXCEPT ![Len(log)] =
        [@ EXCEPT !.status = settled.status, !.value = settled.value]]

\* a catch block that leaves the loop: the first failed search ends the
\* matching with what was found so far
Resume_BreakOnFailure(settled, after) ==
    IF caller = "searchTrack"
    THEN /\ pc' = "done"
         /\ outcome' = settled
         /\ searchLog' = Settle(searchLog, settled)
         /\ UNCHANGED <<qi, allMatches, fetchLog>>
    ELSE IF settled.status = "rejected"
    THEN /\ pc' = "done"
         /\ outcome' = Resolved(SelectMatches(allMatches))
         /\ searchLog' = Settle(searchLog, settled)
         /\ UNCHANGED <<qi, allMatches, fetchLog>>
    ELSE Proceed(RunLoop(SearchQueries(source), qi + 1,
                         Settle(searchLog, settled), fetchLog),
                 after.allMatches)

\* the caller of searchTrack goes on with what it settled with:
\* findTrackMatches inside its try/catch (lines 824-833)
Resume(settled, after) ==
    IF caller = "searchTrack"
    THEN /\ pc' = "done"
         /\ outcome' = settled
         /\ searchLog' = Settle(searchLog, settled)
         /\ UNCHANGED <<qi, allMatches, fetchLog>>
    ELSE IF after.thrown
    THEN /\ pc' = "done"
         /\ outcome' = Rejected
         /\ searchLog' = Settle(searchLog, settled)
         /\ UNCHANGED <<qi, allMatches, fetchLog>>
    ELSE Proceed(RunLoop(SearchQueries(source), qi + 1,
                         Settle(searchLog, settled), fetchLog),
                 after.allMatches)

SearchSettles(settled) ==
    Resume(settled, AfterSearch(allMatches, source, settled))

\* fetchWithProxy settles and searchTrack finishes (lines 727-789)
FetchSettles(response) ==
    /\ pc = "awaitFetch"
    /\ SearchSettles(searchTrackSettles(response))
    /\ UNCHANGED <<caller, source>>
    /\ UNCHANGED exceptEngine

ResponsesFor(method) ==
    IF method = "findTrackMatches" THEN Responses ELSE DirectResponses

EngineNext ==
    \/ \E track \in Sources : FindTrackMatches(track)
    \/ \E query \in DirectQueries, limit \in DirectLimits : SearchTrack(query, limit)
    \/ \E response \in ResponsesFor(caller) : FetchSettles(response)

vars == <<engineVars, bestVars, uiVars, proxyVars, callVars, retryVars, trackVars>>

Init == EngineInit /\ RestIdle

Next == EngineNext

Spec == Init /\ [][Next]_vars

\* findTrackMatches on the sources and answers of Scenario A
ScenarioNext ==
    \/ \E track \in ScenarioSources : FindTrackMatches(track)
    \/ \E response \in ScenarioResponses : FetchSettles(response)

SpecScenario == Init /\ [][ScenarioNext]_vars

\* ------------------------------------------------------------------------
\* findBestMatches on its own: arguments drawn from BestInputs, one call
\* ------------------------------------------------------------------------

BestInit ==
    /\ EngineInit
    /\ UiIdle
    /\ ProxyIdle
    /\ RetryIdle
    /\ TrackIdle
    /\ CallIdle
    /\ bestArgs \in BestInputs
    /\ bestLocals = NotCalled
    /\ bestReturn = NotCalled

FindBestMatches ==
    /\ bestReturn = NotCalled
    /\ bestLocals' = ScoreResults(bestArgs.results, bestArgs.sourceTrack)
    /\ bestReturn' = findBestMatches(bestArgs.results, bestArgs.sourceTrack)
    /\ UNCHANGED <<bestArgs, exceptBest>>

BestNext == FindBestMatches

SpecBest == BestInit /\ [][BestNext]_vars

\* ------------------------------------------------------------------------
\* LinkConverter: the form, the two conversions of a source and Promise.all
\* ------------------------------------------------------------------------

UrlKinds ==
    {"empty", "blank", "other", "spotifyTrack", "spotifyAlbum", "deezerTrack",
     "youtubeMusicTrack", "youtubeMusicAlbum"}

\* !inputUrl.trim()
IsBlankUrl(url) == url.kind \in {"empty", "blank"}

NoPlatform == "null"

detectPlatform(url) ==
    IF url.kind \in {"spotifyTrack", "spotifyAlbum"} THEN "spotify"
    ELSE IF url.kind = "deezerTrack" THEN "deezer"
    ELSE IF url.kind \in {"youtubeMusicTrack", "youtubeMusicAlbum"} THEN "youtubeMusic"
    ELSE NoPlatform

\* the two convert functions of a platform, in the order of its Promise.all
Hooks(platform) ==
    IF platform = "spotify" THEN <<"useSpotifyToDeezer", "useSpotifyToYouTubeMusic">>
    ELSE IF platform = "deezer" THEN <<"useDeezerToYouTubeMusic", "useDeezerToSpotify">>
    ELSE <<"useYouTubeMusicToSpotify", "useYouTubeMusicToDeezer">>

\* the field of the state result that a convert function fills
MatchesField(hook) ==
    IF hook \in {"useSpotifyToDeezer", "useYouTubeMusicToDeezer"} THEN "deezerMatches"
    ELSE IF hook \in {"useSpotifyToYouTubeMusic", "useDeezerToYouTubeMusic"}
    THEN "youtubeMatches"
    ELSE "spotifyMatches"

\* what the services behind a convert function come back with: a rejection,
\* or the matches found (match 1, match 2)
ServiceOutcomes ==
    {[failed |-> TRUE, matches |-> <<>>]}
    \cup {[failed |-> FALSE, matches |-> m] : m \in {<<>>, <<1>>, <<1, 2>>}}

\* a track conversion rejects when no match was found; useDeezerToSpotify
\* and the album conversions resolve with whatever was found
RejectsWithoutMatch(hook, url) ==
    /\ url.kind \in {"spotifyTrack", "deezerTrack", "youtubeMusicTrack"}
    /\ hook # "useDeezerToSpotify"

PendingConversion(hook, url) ==
    [hook |-> hook, url |-> url, status |-> "pending", matches |-> <<>>, message |-> ""]

\* how the promise of a convert function settles
convertSettles(conversion, service) ==
    IF service.failed
    THEN [conversion EXCEPT !.status = "rejected", !.message = "error.service"]
    ELSE IF service.matches = <<>> /\ RejectsWithoutMatch(conversion.hook, conversion.url)
    THEN [conversion EXCEPT !.status = "rejected", !.message = "error.noMatch"]
    ELSE [conversion EXCEPT !.status = "resolved", !.matches = service.matches]

\* the object the .then callback hands to setResult
ConversionState(platform, settled) ==
    [f \in {"deezerMatches", "youtubeMatches", "spotifyMatches"} |->
        IF f = MatchesField(settled[1].hook) THEN settled[1].matches
        ELSE IF f = MatchesField(settled[2].hook) THEN settled[2].matches
        ELSE <<>>]
    @@ [sourcePlatform |-> platform]

\* onChange of the input: setInputUrl
SetInputUrl(url) ==
    /\ inputUrl' = url
    /\ UNCHANGED <<loading, error, resultState, conversions, promiseAll, abandoned>>
    /\ UNCHANGED exceptUi

\* the album branch of both YouTube Music convert functions calls
\* youtubeMusicService.getAlbum, which YouTubeMusicService does not have:
\* the call throws a TypeError out of convert, a function that is not async
ThrowsSynchronously(url) == url.kind = "youtubeMusicAlbum"

\* Promise.all over the two convert calls (lines 79-152); when the first
\* convert call throws, the array is never built, Promise.all is not called
\* and the exception leaves handleConvert
StartConversions(platform) ==
    IF ThrowsSynchronously(inputUrl)
    THEN /\ conversions' = <<>>
         /\ promiseAll' = "none"
    ELSE /\ conversions' =
                [i \in 1..2 |-> PendingConversion(Hooks(platform)[i], inputUrl)]
         /\ promiseAll' = "pending"

\* the convert calls that have not settled
PendingCount(calls) ==
    Cardinality({i \in DOMAIN calls : calls[i].status = "pending"})

\* most convert calls of earlier conversions followed while still pending
MaxAbandoned == 2

\* what handleConvert does with a URL of a known platform (lines 61-76);
\* the convert calls of the conversion before go on by themselves
BeginConversion ==
    /\ abandoned + PendingCount(conversions) <= MaxAbandoned
    /\ abandoned' = abandoned + PendingCount(conversions)
    /\ loading' = TRUE
    /\ error' = ""
    /\ resultState' = NoResult
    /\ StartConversions(detectPlatform(inputUrl))

\* handleConvert (lines 44-77)
handleConvert ==
    /\ IF IsBlankUrl(inputUrl)
       THEN /\ error' = "form.error.empty"
            /\ UNCHANGED <<loading, resultState, conversions, promiseAll, abandoned>>
       ELSE IF detectPlatform(inputUrl) = NoPlatform
       THEN /\ error' = "form.error.invalid"
            /\ UNCHANGED <<loading, resultState, conversions, promiseAll, abandoned>>
       ELSE BeginConversion
    /\ UNCHANGED <<inputUrl, exceptUi>>

\* a convert button that is never disabled
HandleConvert_NeverDisabled == handleConvert

\* the convert button, disabled while loading
HandleConvert == ~loading /\ handleConvert

\* Promise.all after one of its promises settled: it rejects with the first
\* rejection, fulfils when both are resolved, and runs .catch or .then
PromiseAllReacts(settled) ==
    IF promiseAll # "pending"
    THEN UNCHANGED <<loading, error, resultState, promiseAll>>
    ELSE IF \E i \in 1..2 : settled[i].status = "rejected"
    THEN /\ promiseAll' = "rejected"
         /\ error' = (CHOOSE c \in {settled[i] : i \in 1..2} : c.status = "rejected").message
         /\ loading' = FALSE
         /\ UNCHANGED resultState
    ELSE IF \A i \in 1..2 : settled[i].status = "resolved"
    THEN /\ promiseAll' = "fulfilled"
         /\ resultState' = ConversionState(detectPlatform(settled[1].url), settled)
         /\ loading' = FALSE
         /\ UNCHANGED error
    ELSE UNCHANGED <<loading, error, resultState, promiseAll>>

\* the promise of one convert call settles
ConversionSettles(i, service) ==
    /\ i \in DOMAIN conversions
    /\ conversions[i].status = "pending"
    /\ conversions' = [conversions EXCEPT ![i] = convertSettles(@, service)]
    /\ PromiseAllReacts([conversions EXCEPT ![i] = convertSettles(@, service)])
    /\ UNCHANGED <<inputUrl, abandoned, exceptUi>>

\* a convert call of an earlier conversion settles: the Promise.all it went
\* into has settled already, its .then and .catch have run
AbandonedSettles ==
    /\ abandoned > 0
    /\ abandoned' = abandoned - 1
    /\ UNCHANGED <<inputUrl, loading, error, resultState, conversions, promiseAll, exceptUi>>

\* the clear button of ConversionResults, rendered when result && !loading
HandleClear ==
    /\ resultState # NoResult
    /\ ~loading
    /\ inputUrl' = Url("empty")
    /\ error' = ""
    /\ resultState' = NoResult
    /\ UNCHANGED <<loading, conversions, promiseAll, abandoned>>
    /\ UNCHANGED exceptUi

UiNext ==
    \/ \E kind \in UrlKinds : SetInputUrl(Url(kind))
    \/ HandleConvert
    \/ \E i \in 1..2, service \in ServiceOutcomes : ConversionSettles(i, service)
    \/ AbandonedSettles
    \/ HandleClear

UiInit == EngineInit /\ RestIdle

SpecUi == UiInit /\ [][UiNext]_vars

\* every promise of a convert call settles
UiFairness ==
    WF_vars(\E i \in 1..2, service \in ServiceOutcomes : ConversionSettles(i, service))

SpecUiFair == SpecUi /\ UiFairness

\* ------------------------------------------------------------------------
\* normalizeString and calculateSimilarity on their own: the function and
\* its arguments are drawn at the start, then it is called once
\* ------------------------------------------------------------------------

\* longest string normalizeString is applied to out of NormalizeChars
MaxLen == 5

NormalizeChars == {"a", "B", "(", ")", " ", "é"}

Beyonce == <<"B","e","y","o","n","c","é">>

\* strings with brackets, with nested, adjacent and unbalanced groups, with
\* a group between two words, with other whitespace and punctuation
NamedStrings ==
    {Beyonce, HelloLive,
     <<"[","a","]","(","b",")">>, <<"(","[","a",")","]">>,
     <<"(","a",")","(","b",")">>, <<"(","(","a",")","b",")">>,
     <<"a"," ","(","x",")"," ","b">>, <<"a"," ","[","x","]"," ","b">>,
     <<"a","\t","\n","b","!","_","1">>, <<"(","a","\n",")","b">>,
     <<"É","(",")","[","]">>}

NormalizeInputs ==
    SeqsUpTo(NormalizeChars, MaxLen) \cup NamedStrings \cup {Undefined}

\* longest string calculateSimilarity is applied to out of SimilarityChars
MaxSimLen == 3

SimilarityChars == {"a", "b", "!"}

TenTimesA == [i \in 1..10 |-> "a"]

SimilarityInputs ==
    SeqsUpTo(SimilarityChars, MaxSimLen)
    \cup {Undefined, TenTimesA, Hello, HelloLive, Heavy, <<"A">>, <<"(","a",")">>}

CallInputs ==
    {[name |-> "normalizeString", args |-> <<str>>] : str \in NormalizeInputs}
    \cup {[name |-> "calculateSimilarity", args |-> <<str1, str2>>] :
             str1 \in SimilarityInputs, str2 \in SimilarityInputs}

Returned(value) == [called |-> TRUE, value |-> value]

StringsInit ==
    /\ EngineInit
    /\ BestIdle
    /\ UiIdle
    /\ ProxyIdle
    /\ RetryIdle
    /\ TrackIdle
    /\ \E call \in CallInputs : fnName = call.name /\ fnArgs = call.args
    /\ fnResult = NotCalled

NormalizeString ==
    /\ fnName = "normalizeString"
    /\ fnResult = NotCalled
    /\ fnResult' = Returned(normalizeString(fnArgs[1]))
    /\ UNCHANGED <<fnName, fnArgs, exceptCall>>

CalculateSimilarity ==
    /\ fnName = "calculateSimilarity"
    /\ fnResult = NotCalled
    /\ fnResult' = Returned(calculateSimilarity(fnArgs[1], fnArgs[2]))
    /\ UNCHANGED <<fnName, fnArgs, exceptCall>>

StringsNext == NormalizeString \/ CalculateSimilarity

SpecStrings == StringsInit /\ [][StringsNext]_vars

\* ------------------------------------------------------------------------
\* Search links for the platforms without a public search:
\* SpotifyService.findTrackMatches and YouTubeMusicService.findTrackMatches
\* ------------------------------------------------------------------------

\* characters encodeURIComponent leaves as they are
IsUnreserved(c) ==
    IsWord(c) \/ c \in {"-", ".", "!", "~", "*", "'", "(", ")"}

\* the UTF-8 percent-encoding of the other characters the inputs hold
PercentCodes ==
    [c \in {" ", "[", "]", "\t", "\n", "é", "É", "?", "&"} |->
        CASE c = " " -> <<"%","2","0">>
          [] c = "[" -> <<"%","5","B">>
          [] c = "]" -> <<"%","5","D">>
          [] c = "\t" -> <<"%","0","9">>
          [] c = "\n" -> <<"%","0","A">>
          [] c = "é" -> <<"%","C","3","%","A","9">>
          [] c = "É" -> <<"%","C","3","%","8","9">>
          [] c = "?" -> <<"%","3","F">>
          [] c = "&" -> <<"%","2","6">>]

RECURSIVE encodeURIComponent(_)
encodeURIComponent(s) ==
    IF s = <<>> THEN <<>>
    ELSE (IF IsUnreserved(s[1]) THEN <<s[1]>> ELSE PercentCodes[s[1]])
             \o encodeURIComponent(Tail(s))

FeatOpen == <<"(", "f", "e", "a", "t", ".">>

\* whether the literal lit is at position j of s, letter case ignored
MatchesAt(s, j, lit) ==
    /\ j + Len(lit) - 1 <= Len(s)
    /\ ToLowerCase(SubSeq(s, j, j + Len(lit) - 1)) = lit

\* s.replace(/\s*\(feat\..*?\)/gi, "")
RECURSIVE RemoveFeat(_, _)
RemoveFeat(s, i) ==
    IF i > Len(s) THEN <<>>
    ELSE LET j == SkipSpaces(s, i)
             k == IF MatchesAt(s, j, FeatOpen)
                  THEN FindClose(s, j + Len(FeatOpen), ")") ELSE 0
         IN IF k # 0
            THEN RemoveFeat(s, k + 1)
            ELSE <<s[i]>> \o RemoveFeat(s, i + 1)

\* YouTubeMusicService.normalizeForSearch
normalizeForSearch(str) ==
    IF Falsy(str) THEN <<>>
    ELSE Trim(RemoveGroups(
                  RemoveGroups(RemoveFeat(str, 1), 1, "[", "]"),
                  1, "(", ")"))

\* artists[0] || ""
FirstArtistOrEmpty(artists) ==
    IF artists = <<>> \/ Falsy(artists[1]) THEN <<>> ELSE artists[1]

\* images?.[0]?.url || fallback
ThumbnailOr(images, fallback) ==
    IF images = <<>> \/ Falsy(images[1]) THEN fallback ELSE images[1]

SpotifySearchBase == "https://open.spotify.com/search/"

YouTubeMusicSearchBase == "https://music.youtube.com/search?q="

YouTubeSearchBase == "https://www.youtube.com/results?search_query="

DefaultThumbnail == <<"d">>

OfficialAudio == <<" ","o","f","f","i","c","i","a","l"," ","a","u","d","i","o">>

\* a SpotifyTrack that stands for a search; the id is the text after the
\* time stamp of `search-${Date.now()}-...`
SpotifyLink(suffix, name, artists, query, thumbnail, isHighQuality) ==
    [id |-> suffix, name |-> name, artists |-> artists, album |-> <<>>,
     url |-> [base |-> SpotifySearchBase, query |-> encodeURIComponent(query)],
     images |-> IF Falsy(thumbnail) THEN <<>> ELSE <<thumbnail>>,
     isHighQuality |-> isHighQuality]

\* SpotifyService.findTrackMatches, lines 213-255, for the destructured
\* values
SpotifyLinks(name, artist, thumbnail) ==
    IF ~Falsy(artist) /\ ~Falsy(name)
    THEN <<SpotifyLink("1", name, <<artist>>, artist \o <<" ">> \o name,
                       thumbnail, TRUE),
           SpotifyLink("2", name, <<artist>>, name, thumbnail, FALSE)>>
    ELSE IF ~Falsy(name)
    THEN <<SpotifyLink("fallback", name, <<UnknownArtist>>, name,
                       thumbnail, FALSE)>>
    ELSE <<>>

MaxLinks == 5

spotifyFindTrackMatches(sourceTrack) ==
    Slice(SpotifyLinks(sourceTrack.name,
                       FirstArtistOrEmpty(sourceTrack.artists),
                       ThumbnailOr(sourceTrack.images, <<>>)),
          MaxLinks)

\* a YouTubeMusicTrack that stands for a search
YouTubeLink(suffix, name, artist, channel, base, query, thumbnail, isHighQuality) ==
    [id |-> suffix, name |-> name, artists |-> <<artist>>,
     channel |-> channel,
     url |-> [base |-> base, query |-> encodeURIComponent(query)],
     thumbnail |-> thumbnail, images |-> <<thumbnail>>,
     isHighQuality |-> isHighQuality]

Unknown == <<"U","n","k","n","o","w","n">>

VariousArtists ==
    <<"V","a","r","i","o","u","s"," ","A","r","t","i","s","t","s">>

TopicSuffix == <<" ","-"," ","T","o","p","i","c">>

\* links that add the fallback record whenever the artist is missing
YouTubeLinks_AlwaysFallback(cleanTrackName, cleanArtist, thumbnail) ==
    IF ~Falsy(cleanArtist) /\ ~Falsy(cleanTrackName)
    THEN <<YouTubeLink("1", cleanTrackName, cleanArtist, cleanArtist,
                       YouTubeMusicSearchBase,
                       cleanArtist \o <<" ">> \o cleanTrackName,
                       thumbnail, TRUE)>>
    ELSE <<YouTubeLink("fallback", cleanTrackName, Unknown, VariousArtists,
                       YouTubeMusicSearchBase, cleanTrackName,
                       thumbnail, FALSE)>>

\* searchYouTubeBasic, lines 120-193, for the cleaned values
YouTubeLinks(cleanTrackName, cleanArtist, thumbnail) ==
    IF ~Falsy(cleanArtist) /\ ~Falsy(cleanTrackName)
    THEN <<YouTubeLink("1", cleanTrackName, cleanArtist, cleanArtist,
                       YouTubeMusicSearchBase,
                       cleanArtist \o <<" ">> \o cleanTrackName,
                       thumbnail, TRUE),
           YouTubeLink("2", cleanTrackName, cleanArtist,
                       cleanArtist \o TopicSuffix,
                       YouTubeMusicSearchBase,
                       cleanArtist \o <<" ">> \o cleanTrackName
                           \o OfficialAudio,
                       thumbnail, TRUE),
           YouTubeLink("3", cleanTrackName, cleanArtist, cleanArtist,
                       YouTubeSearchBase,
                       cleanArtist \o <<" ">> \o cleanTrackName,
                       thumbnail, FALSE)>>
    ELSE IF ~Falsy(cleanTrackName)
    THEN <<YouTubeLink("fallback", cleanTrackName, Unknown, VariousArtists,
                       YouTubeMusicSearchBase, cleanTrackName,
                       thumbnail, FALSE)>>
    ELSE <<>>

searchYouTubeBasic(spotifyTrack) ==
    YouTubeLinks(normalizeForSearch(spotifyTrack.name),
                 normalizeForSearch(FirstArtistOrEmpty(spotifyTrack.artists)),
                 ThumbnailOr(spotifyTrack.images, DefaultThumbnail))

youtubeFindTrackMatches(sourceTrack) == searchYouTubeBasic(sourceTrack)

LiveOnly == <<"(","L","i","v","e",")">>

HelloFeat ==
    Hello \o <<" ","(","F","e","a","t","."," ","x",")"," ","[","y","]">>

LinkNames ==
    {<<>>, Undefined, Hello, HelloLive, LiveOnly, HelloFeat, Spaces, Beyonce,
     <<"[","x","]">>, <<"a"," ","(","x">>, <<"a","?","&","b">>}

LinkArtists ==
    {<<>>, <<Adele>>, <<<<>>>>, <<LiveOnly>>, <<Beyonce, Adele>>,
     <<<<>>, Adele>>}

Cover == <<"c">>

LinkImages == {<<>>, <<Cover>>}

LinkSource(name, artists, images) ==
    [name |-> name, artists |-> artists, images |-> images]

LinkSources ==
    {LinkSource(name, artists, images) :
        name \in LinkNames, artists \in LinkArtists, images \in LinkImages}

LinkFunctions ==
    {"SpotifyService.findTrackMatches", "YouTubeMusicService.findTrackMatches"}

LinksInit ==
    /\ EngineInit
    /\ BestIdle
    /\ UiIdle
    /\ ProxyIdle
    /\ RetryIdle
    /\ TrackIdle
    /\ fnName \in LinkFunctions
    /\ \E sourceTrack \in LinkSources : fnArgs = <<sourceTrack>>
    /\ fnResult = NotCalled

SpotifyFindTrackMatches ==
    /\ fnName = "SpotifyService.findTrackMatches"
    /\ fnResult = NotCalled
    /\ fnResult' = Returned(spotifyFindTrackMatches(fnArgs[1]))
    /\ UNCHANGED <<fnName, fnArgs, exceptCall>>

YouTubeFindTrackMatches ==
    /\ fnName = "YouTubeMusicService.findTrackMatches"
    /\ fnResult = NotCalled
    /\ fnResult' = Returned(youtubeFindTrackMatches(fnArgs[1]))
    /\ UNCHANGED <<fnName, fnArgs, exceptCall>>

LinksNext == SpotifyFindTrackMatches \/ YouTubeFindTrackMatches

SpecLinks == LinksInit /\ [][LinksNext]_vars

\* ------------------------------------------------------------------------
\* DeezerService.findAlbumMatches, and with searchTrack the search requests
\* of the service
\* ------------------------------------------------------------------------

\* Array.prototype.join(" "): an undefined element gives the empty string
RECURSIVE JoinWithSpace(_)
JoinWithSpace(artists) ==
    IF artists = <<>> THEN <<>>
    ELSE (IF artists[1] = Undefined THEN <<>> ELSE artists[1])
             \o (IF Len(artists) = 1 THEN <<>>
                 ELSE <<" ">> \o JoinWithSpace(Tail(artists)))

\* the value `undefined` where the code expects an array
UndefinedArray == <<<<"<undefined>">>>>

\* the argument of findAlbumMatches (typed any); artists is UndefinedArray
\* when the property is missing
SourceAlbum(name, artists) == [name |-> name, artists |-> artists]

\* an entry of the data array of an album search as far as the matching
\* reads it; artist is Undefined when artist?.name is
AlbumResult(id, title, artist) == [id |-> id, title |-> title, artist |-> artist]

\* the limit written into the album search URL
AlbumSearchLimit == 10

\* the request findAlbumMatches hands to fetchWithProxy
AlbumSearchRequest(sourceAlbum) ==
    [q |-> encodeURIComponent(TemplateText(sourceAlbum.name) \o <<" ">>
                                  \o JoinWithSpace(sourceAlbum.artists)),
     limit |-> AlbumSearchLimit]

\* entries the loop skips (lines 1066-1073)
SkippedAlbum(result) ==
    result = Null \/ result.id = 0 \/ Falsy(result.title)

AlbumArtistBonus(artistSimilarity) ==
    IF artistSimilarity > 85 THEN 1500
    ELSE IF artistSimilarity > 70 THEN 1000 ELSE 0

AlbumTitleBonus(titleSimilarity) == IF titleSimilarity > 80 THEN 500 ELSE 0

\* the score is a double: of all pairs of similarities in 0..100 only
\* 62 * 0.6 + 7 * 0.4 falls on the other side of the threshold than the exact
\* sum does (39.99999999999999 for 40); every exact score is a multiple of
\* 0.2, so one hundredth less keeps its place among the others
DoubleDeficit(artistSimilarity, titleSimilarity) ==
    IF artistSimilarity = 62 /\ titleSimilarity = 7 THEN 1 ELSE 0

\* lines 1075-1099, in hundredths
AlbumScoreOf(artistSimilarity, titleSimilarity) ==
    60 * artistSimilarity + 40 * titleSimilarity
        + AlbumArtistBonus(artistSimilarity) + AlbumTitleBonus(titleSimilarity)
        - DoubleDeficit(artistSimilarity, titleSimilarity)

AlbumScore(sourceAlbum, result) ==
    AlbumScoreOf(
        calculateSimilarity(JoinWithSpace(sourceAlbum.artists),
                            IF Falsy(result.artist) THEN <<>> ELSE result.artist),
        calculateSimilarity(sourceAlbum.name, result.title))

\* const threshold = 40, in hundredths
albumThreshold == 4000

\* the DeezerAlbum built for a result, with its tier
AlbumOf(result, isHighQuality) ==
    [id |-> result.id, title |-> result.title,
     artist |-> IF Falsy(result.artist) THEN UnknownArtist ELSE result.artist,
     name |-> result.title,
     artists |-> IF Falsy(result.artist) THEN <<>> ELSE <<result.artist>>,
     isHighQuality |-> isHighQuality]

ScoredAlbum(result, score) ==
    [album |-> AlbumOf(result, score >= albumThreshold), score |-> score]

\* m put into the sequence sorted, which is in non-increasing score order,
\* behind the entries that score as much
RECURSIVE InsertByScore(_, _)
InsertByScore(sorted, m) ==
    IF sorted = <<>> THEN <<m>>
    ELSE IF sorted[1].score >= m.score
         THEN <<sorted[1]>> \o InsertByScore(Tail(sorted), m)
         ELSE <<m>> \o sorted

\* Array.prototype.sort((a, b) => b.score - a.score): stable
RECURSIVE SortByScore(_)
SortByScore(matches) ==
    IF matches = <<>> THEN <<>>
    ELSE InsertByScore(SortByScore(SubSeq(matches, 1, Len(matches) - 1)),
                       matches[Len(matches)])

MaxAlbums == 5

SelectAlbums_Unsorted(highQualityMatches, exploreMoreMatches) ==
    LET chosen == IF highQualityMatches # <<>> THEN highQualityMatches
                  ELSE exploreMoreMatches
        best == Slice(chosen, MaxAlbums)
    IN [i \in DOMAIN best |-> best[i].album]

\* lines 1133-1146
SelectAlbums(highQualityMatches, exploreMoreMatches) ==
    LET chosen == IF highQualityMatches # <<>> THEN highQualityMatches
                  ELSE exploreMoreMatches
        best == Slice(SortByScore(chosen), MaxAlbums)
    IN [i \in DOMAIN best |-> best[i].album]

AlbumSources ==
    {SourceAlbum(Hello, <<Adele>>), SourceAlbum(Hello, <<>>),
     SourceAlbum(Undefined, <<Adele>>), SourceAlbum(Hello, UndefinedArray)}

\* the albums a search response can carry: the album looked for, the same
\* title by someone else, an unrelated album without an artist name
AlbumPool ==
    {AlbumResult(1, Hello, Adele), AlbumResult(2, Hello, Intro),
     AlbumResult(3, Intro, Undefined)}

\* longest data array of an album search response
MaxAlbumResults == 6

AlbumResponses ==
    {DataResponse(d) : d \in SeqsUpTo(AlbumPool, MaxAlbumResults)}
    \cup {DataResponse(<<Null, AlbumResult(0, Hello, Adele), AlbumResult(4, <<>>, Adele),
                         AlbumResult(5, Hallo, Adele)>>)}
    \cup {[kind |-> k, data |-> <<>>] : k \in {"reject", "error", "invalid"}}

AlbumScoreTable ==
    [p \in {sourceAlbum \in AlbumSources : sourceAlbum.artists # UndefinedArray}
            \X (AlbumPool \cup {AlbumResult(5, Hallo, Adele)}) |->
        AlbumScore(p[1], p[2])]

\* the scored matches of the entries the loop does not skip
ScoreAlbums(data, sourceAlbum) ==
    LET kept == SelectSeq(data, LAMBDA r : ~SkippedAlbum(r))
    IN [i \in DOMAIN kept |->
           ScoredAlbum(kept[i], AlbumScoreTable[<<sourceAlbum, kept[i]>>])]

\* highQualityMatches and exploreMoreMatches after the loop (lines
\* 1061-1130); both are empty when the loop is not reached
AlbumTiers(response, sourceAlbum) ==
    IF response.kind # "data" THEN [highQuality |-> <<>>, exploreMore |-> <<>>]
    ELSE [highQuality |-> SelectSeq(ScoreAlbums(response.data, sourceAlbum),
                                    LAMBDA m : m.album.isHighQuality),
          exploreMore |-> SelectSeq(ScoreAlbums(response.data, sourceAlbum),
                                    LAMBDA m : ~m.album.isHighQuality)]

\* what findAlbumMatches returns once fetchWithProxy has settled: the catch
\* block and the test of the body both give the empty array
albumMatchesOf(response, sourceAlbum) ==
    IF response.kind # "data" THEN <<>>
    ELSE SelectAlbums(AlbumTiers(response, sourceAlbum).highQuality,
                      AlbumTiers(response, sourceAlbum).exploreMore)

\* findAlbumMatches up to its await; sourceAlbum.artists.join throws
\* inside the try block when artists is missing
FindAlbumMatches(sourceAlbum) ==
    /\ pc = "idle"
    /\ caller' = "findAlbumMatches"
    /\ source' = sourceAlbum
    /\ IF sourceAlbum.artists = UndefinedArray
       THEN /\ pc' = "done"
            /\ outcome' = Resolved(<<>>)
            /\ fetchLog' = fetchLog
       ELSE /\ pc' = "awaitAlbumFetch"
            /\ outcome' = outcome
            /\ fetchLog' = Append(fetchLog, AlbumSearchRequest(sourceAlbum))
    /\ UNCHANGED <<qi, allMatches, searchLog>>
    /\ UNCHANGED exceptEngine

AlbumFetchSettles(response) ==
    /\ pc = "awaitAlbumFetch"
    /\ pc' = "done"
    /\ allMatches' = AlbumTiers(response, source)
    /\ outcome' = Resolved(albumMatchesOf(response, source))
    /\ UNCHANGED <<caller, source, qi, searchLog, fetchLog>>
    /\ UNCHANGED exceptEngine

SearchNext ==
    \/ \E query \in DirectQueries, limit \in DirectLimits : SearchTrack(query, limit)
    \/ \E response \in DirectResponses : FetchSettles(response)
    \/ \E sourceAlbum \in AlbumSources : FindAlbumMatches(sourceAlbum)
    \/ \E response \in AlbumResponses : AlbumFetchSettles(response)

SearchInit == EngineInit /\ RestIdle

SpecSearch == SearchInit /\ [][SearchNext]_vars

\* ------------------------------------------------------------------------
\* fetchWithProxy (utils/responseWrapper)
\* ------------------------------------------------------------------------

\* an option the caller left out
Omitted == -1

DefaultMaxRetries == 2

DefaultRetryDelay == 1000

\* largest maxRetries a caller passes
MaxRetriesBound == 3

RetryOptions ==
    [maxRetries : {Omitted} \cup 0..MaxRetriesBound,
     retryDelay : {Omitted, 0, 500}]

\* const { maxRetries = 2, retryDelay = 1000 } = options
WithDefaults(options) ==
    [maxRetries |-> IF options.maxRetries = Omitted THEN DefaultMaxRetries
                    ELSE options.maxRetries,
     retryDelay |-> IF options.retryDelay = Omitted THEN DefaultRetryDelay
                    ELSE options.retryDelay]

\* how axios.get settles: with the data of a response whose status passes
\* validateStatus, or with an error
AttemptResults ==
    {[ok |-> TRUE, value |-> v] : v \in {"data1", "data2"}}
    \cup {[ok |-> FALSE, value |-> v] : v \in {"timeout", "status 500", "network"}}

GenericError == "Backend proxy failed after retries"

LogEntry(kind, n, value) == [kind |-> kind, n |-> n, value |-> value]

\* a catch block that never takes the attempt for the last one
IsLastAttempt_Never(n, maxRetries) == FALSE

\* attempt === maxRetries
IsLastAttempt(n, maxRetries) == n = maxRetries

\* the loop condition attempt <= maxRetries
LoopContinues(n, maxRetries) == n <= maxRetries

\* the head of the for loop with attempt = n, the log being log: the next
\* request is sent, or the loop is left and the function throws
LoopHead(n, maxRetries, log) ==
    IF LoopContinues(n, maxRetries)
    THEN [pc |-> "awaitAttempt", rejects |-> FALSE,
          log |-> Append(log, LogEntry("attempt", n, ""))]
    ELSE [pc |-> "done", rejects |-> TRUE, log |-> log]

EnterLoop(head) ==
    /\ fwPc' = head.pc
    /\ attemptLog' = head.log
    /\ fwOutcome' = IF head.rejects
                    THEN [status |-> "rejected", value |-> GenericError]
                    ELSE fwOutcome

FetchWithProxy(options) ==
    /\ fwPc = "idle"
    /\ fwOptions' = WithDefaults(options)
    /\ attempt' = 0
    /\ EnterLoop(LoopHead(0, WithDefaults(options).maxRetries, attemptLog))
    /\ UNCHANGED exceptRetry

\* the awaited axios.get settles
AttemptSettles(result) ==
    /\ fwPc = "awaitAttempt"
    /\ attemptLog' =
           Append(attemptLog,
                  LogEntry(IF result.ok THEN "succeeded" ELSE "failed",
                           attempt, result.value))
    /\ IF result.ok
       THEN /\ fwPc' = "done"
            /\ fwOutcome' = [status |-> "resolved", value |-> result.value]
       ELSE IF IsLastAttempt(attempt, fwOptions.maxRetries)
       THEN /\ fwPc' = "done"
            /\ fwOutcome' = [status |-> "rejected", value |-> result.value]
       ELSE /\ fwPc' = "awaitTimer"
            /\ fwOutcome' = fwOutcome
    /\ UNCHANGED <<fwOptions, attempt>>
    /\ UNCHANGED exceptRetry

\* the timer of setTimeout(resolve, retryDelay) fires and the loop goes on
TimerFires ==
    /\ fwPc = "awaitTimer"
    /\ fwOptions' = fwOptions
    /\ attempt' = attempt + 1
    /\ EnterLoop(LoopHead(attempt + 1, fwOptions.maxRetries,
                          Append(attemptLog,
                                 LogEntry("wait", fwOptions.retryDelay, ""))))
    /\ UNCHANGED exceptRetry

RetryNext ==
    \/ \E options \in RetryOptions : FetchWithProxy(options)
    \/ \E result \in AttemptResults : AttemptSettles(result)
    \/ TimerFires

RetryInit == EngineInit /\ RestIdle

SpecRetry == RetryInit /\ [][RetryNext]_vars

\* every awaited request settles and every timer fires
RetryFairness ==
    /\ WF_vars(\E result \in AttemptResults : AttemptSettles(result))
    /\ WF_vars(TimerFires)

SpecRetryFair == SpecRetry /\ RetryFairness

\* ------------------------------------------------------------------------
\* getTrack and getTrackFromShortLink (deezerService.ts).  Texts are plain
\* strings here; "" is a meta tag or a property that is absent.
\* ------------------------------------------------------------------------

RejectedWith(message) == [status |-> "rejected", value |-> message]

\* trackId: 'short:<code>' from a link.deezer.com URL, or the digits of a
\* track URL
ShortId(code) == [called |-> TRUE, short |-> TRUE, text |-> code]

DirectId(digits) == [called |-> TRUE, short |-> FALSE, text |-> digits]

TrackIds == {ShortId("abc"), ShortId("xyz"), DirectId("3135556"), DirectId("42")}

\* the requests handed to fetchWithProxy
ShortUrl(code) == [base |-> "https://link.deezer.com/s/", text |-> code]

TrackUrl(digits) == [base |-> "https://api.deezer.com/track/", text |-> digits]

\* what cheerio finds in the page: og:title, twitter:creator, the parts of
\* og:description around " - ", music:duration, og:image, and the SNG_ID of
\* the first script ("" when there is no script or no match)
Page(ogTitle, twitterCreator, descParts, duration, image, sngId) ==
    [called |-> TRUE, ogTitle |-> ogTitle, twitterCreator |-> twitterCreator,
     descParts |-> descParts, duration |-> duration, image |-> image, sngId |-> sngId]

Pages ==
    {Page(t, c, d, n, "cover.jpg", i) :
        t \in {"", "Hello"}, c \in {"", "Adele"},
        d \in {<<>>, <<"Adele", "Hello", "2015">>}, n \in {295},
        i \in {"", "0", "3135556"}}

\* how a fetchWithProxy promise rejects: with a response status, with an
\* error code, or otherwise
FetchErrors ==
    {[response |-> 404, code |-> "", message |-> "Request failed with status code 404"],
     [response |-> 403, code |-> "", message |-> "Request failed with status code 403"],
     [response |-> 0, code |-> "ECONNABORTED", message |-> "timeout of 15000ms exceeded"],
     [response |-> 0, code |-> "", message |-> "Network Error"]}

PageResponses ==
    {[ok |-> TRUE, page |-> page, error |-> ""] : page \in Pages}
    \cup {[ok |-> FALSE, page |-> NotCalled, error |-> e.message] : e \in FetchErrors}

\* the body of GET /track/<id>: null is id 0 without a title
TrackData(id, title, artistName, duration) ==
    [id |-> id, title |-> title, artistName |-> artistName, duration |-> duration]

TrackBodies ==
    {TrackData(3135556, "Hello", "Adele", 295), TrackData(3135556, "Hello", "", 295),
     TrackData(0, "Hello", "Adele", 295), TrackData(3135556, "", "Adele", 295),
     TrackData(0, "", "", 0)}

TrackResponses ==
    {[ok |-> TRUE, data |-> data, error |-> NotCalled] : data \in TrackBodies}
    \cup {[ok |-> FALSE, data |-> NotCalled, error |-> e] : e \in FetchErrors}

\* x || fallback for a string
StringOr(x, fallback) == IF x = "" THEN fallback ELSE x

DeezerTrack(id, title, artist, duration, link, cover) ==
    [id |-> id, title |-> title, artist |-> artist, duration |-> duration,
     link |-> link, cover |-> cover]

\* let artist = twitterCreator || "Unknown Artist", replaced by the first
\* part of og:description when there is a description and no creator
ParsedArtist(page) ==
    IF page.descParts # <<>> /\ page.twitterCreator = ""
    THEN StringOr(page.descParts[1], "Unknown Artist")
    ELSE StringOr(page.twitterCreator, "Unknown Artist")

\* trackIdMatch?.[1] || "0"
ParsedTrackId(page) == StringOr(page.sngId, "0")

\* the record built from the page (lines 627-636); parseInt(trackId) || 0 is
\* 0 here because the record is reached only with trackId "0"
ParsedTrack(page, code) ==
    DeezerTrack(0, StringOr(page.ogTitle, "Unknown Track"), ParsedArtist(page),
                page.duration, ShortUrl(code), page.image)

\* the generic track of the outer catch (lines 637-647)
GenericTrack(code) ==
    DeezerTrack(0, "Unknown Track", "Unknown Artist", 0, ShortUrl(code), "")

\* !data || typeof data !== "object" || !data.id || !data.title
InvalidTrackData(data) == data.id = 0 \/ data.title = ""

\* the catch block of getTrack (lines 534-561)
TrackErrorMessage(failure) ==
    IF failure.response = 404 THEN "Track not found on Deezer"
    ELSE IF failure.response \in {403, 401} THEN "Unable to access Deezer"
    ELSE IF failure.code \in {"ECONNABORTED", "ETIMEDOUT"} THEN "Connection timeout"
    ELSE "Failed to fetch track from Deezer: " \o failure.message

\* how getTrack(<digits>) settles once its request has (lines 514-561)
getTrackSettles(response) ==
    IF ~response.ok THEN RejectedWith(TrackErrorMessage(response.error))
    ELSE IF InvalidTrackData(response.data)
    THEN RejectedWith("Failed to fetch track from Deezer: Invalid track data from Deezer API")
    ELSE Resolved(DeezerTrack(response.data.id, response.data.title,
                              StringOr(response.data.artistName, "Unknown Artist"),
                              response.data.duration, "", ""))

\* getTrack(trackId) up to its first await: a 'short:' id goes to
\* getTrackFromShortLink, which asks for the page of the link
GetTrack(trackId) ==
    /\ gtPc = "idle"
    /\ gtTrackId' = trackId
    /\ IF trackId.short
       THEN /\ gtFetches' = Append(gtFetches, ShortUrl(trackId.text))
            /\ gtPc' = "awaitPage"
       ELSE /\ gtFetches' = Append(gtFetches, TrackUrl(trackId.text))
            /\ gtPc' = "awaitTrack"
    /\ UNCHANGED <<gtPage, gtOutcome, exceptTrack>>

\* getTrackFromShortLink once the page has come back (lines 576-647): with a
\* track id in the page it returns the promise of getTrack(trackId), which
\* has run up to its own request; otherwise it resolves with what it parsed
PageFetchSettles(response) ==
    /\ gtPc = "awaitPage"
    /\ IF ~response.ok
       THEN /\ gtOutcome' = Resolved(GenericTrack(gtTrackId.text))
            /\ gtPc' = "done"
            /\ UNCHANGED <<gtPage, gtFetches>>
       ELSE IF ParsedTrackId(response.page) # "0"
       THEN /\ gtPage' = response.page
            /\ gtFetches' = Append(gtFetches, TrackUrl(ParsedTrackId(response.page)))
            /\ gtPc' = "awaitTrack"
            /\ UNCHANGED gtOutcome
       ELSE /\ gtPage' = response.page
            /\ gtOutcome' = Resolved(ParsedTrack(response.page, gtTrackId.text))
            /\ gtPc' = "done"
            /\ UNCHANGED gtFetches
    /\ UNCHANGED <<gtTrackId, exceptTrack>>

\* the request of getTrack(<digits>) settles.  Called from
\* getTrackFromShortLink, its promise is returned without await (line 621),
\* so the try around the call has been left when the promise settles and
\* the caller's promise settles the same way
TrackFetchSettles(response) ==
    /\ gtPc = "awaitTrack"
    /\ gtOutcome' = getTrackSettles(response)
    /\ gtPc' = "done"
    /\ UNCHANGED <<gtTrackId, gtPage, gtFetches, exceptTrack>>

TrackNext ==
    \/ \E trackId \in TrackIds : GetTrack(trackId)
    \/ \E response \in PageResponses : PageFetchSettles(response)
    \/ \E response \in TrackResponses : TrackFetchSettles(response)

TrackInit == EngineInit /\ RestIdle

SpecTrack == TrackInit /\ [][TrackNext]_vars

\* ------------------------------------------------------------------------
\* The backend proxy: GET /proxy (back/server.js).  A hostname is the
\* sequence of its labels, as new URL(url).hostname gives it in lower case.
\* ------------------------------------------------------------------------

allowedDomains ==
    {<<"open", "spotify", "com">>, <<"api", "spotify", "com">>,
     <<"oembed", "spotify", "com">>, <<"api", "deezer", "com">>,
     <<"link", "deezer", "com">>, <<"www", "deezer", "com">>}

\* hostname.endsWith(`.${domain}`)
EndsWithDomain(hostname, domain) ==
    /\ Len(hostname) > Len(domain)
    /\ SubSeq(hostname, Len(hostname) - Len(domain) + 1, Len(hostname)) = domain

isAllowed(hostname) ==
    \E domain \in allowedDomains :
        hostname = domain \/ EndsWithDomain(hostname, domain)

\* req.query.url: absent, not a URL, or a URL with its hostname
NoUrlParam == [given |-> FALSE, valid |-> FALSE, hostname |-> <<>>]

InvalidUrl == [given |-> TRUE, valid |-> FALSE, hostname |-> <<>>]

ParsedUrl(hostname) == [given |-> TRUE, valid |-> TRUE, hostname |-> hostname]

\* hosts outside the list: unrelated, with an allowed domain as a prefix,
\* with a label that ends like an allowed one, a subdomain of an allowed one
OtherHosts ==
    {<<"evil", "com">>, <<"api", "deezer", "com", "evil", "com">>,
     <<"evilapi", "deezer", "com">>, <<"cdn", "api", "deezer", "com">>}

ProxyUrls ==
    {NoUrlParam, InvalidUrl}
    \cup {ParsedUrl(h) : h \in allowedDomains \cup OtherHosts}

\* where an upstream server may redirect to
RedirectHosts == {<<"www", "deezer", "com">>, <<"evil", "com">>}

\* what comes back for a request axios sent: a redirect, a final status with
\* its body, or a failure without a response
UpstreamAnswers ==
    {[kind |-> "redirect", to |-> h, status |-> 302, body |-> ""] : h \in RedirectHosts}
    \cup {[kind |-> "status", to |-> <<>>, status |-> 200, body |-> b] : b \in {"json", "html"}}
    \cup {[kind |-> "status", to |-> <<>>, status |-> n, body |-> "upstream error"] : n \in {404, 500}}
    \cup {[kind |-> k, to |-> <<>>, status |-> NoStatus, body |-> ""] :
             k \in {"ECONNABORTED", "ETIMEDOUT", "ENOTFOUND", "other"}}

\* parseInt(process.env.MAX_REDIRECTS, 10) || 5
maxRedirects == 5

\* res.status(status).json({error: ...}) or .send(data)
Response(status, body) == [status |-> status, body |-> body]

\* the handler up to await axios.get (lines 43-89)
ProxyRequest(url) ==
    /\ proxyPc = "idle"
    /\ proxyUrl' = url
    /\ IF ~url.given
       THEN /\ proxyStatus' = 400
            /\ proxyResponses' = Append(proxyResponses, Response(400, "URL parameter is required"))
            /\ proxyPc' = "done"
            /\ UNCHANGED upstreamHosts
       ELSE IF ~url.valid
       THEN /\ proxyStatus' = 400
            /\ proxyResponses' = Append(proxyResponses, Response(400, "Invalid URL format"))
            /\ proxyPc' = "done"
            /\ UNCHANGED upstreamHosts
       ELSE IF ~isAllowed(url.hostname)
       THEN /\ proxyStatus' = 403
            /\ proxyResponses' = Append(proxyResponses, Response(403, "Domain not allowed"))
            /\ proxyPc' = "done"
            /\ UNCHANGED upstreamHosts
       ELSE /\ upstreamHosts' = <<url.hostname>>
            /\ proxyPc' = "awaitUpstream"
            /\ UNCHANGED <<proxyStatus, proxyResponses>>
    /\ UNCHANGED <<redirects, answersLog, exceptProxy>>

\* the response sent to the client once axios.get has settled (lines 91-133)
ProxyResponds(response) ==
    /\ proxyStatus' = response.status
    /\ proxyResponses' = Append(proxyResponses, response)
    /\ proxyPc' = "done"
    /\ UNCHANGED <<upstreamHosts, redirects>>

\* the catch block of the handler: the response for a rejected axios.get
ErrorResponse_TimeoutAsOther(answer) ==
    IF answer.kind = "status" THEN Response(answer.status, "Target server error")
    ELSE IF answer.kind = "ENOTFOUND" THEN Response(404, "Domain not found")
    ELSE Response(500, "Proxy server error")

ErrorResponse(answer) ==
    IF answer.kind = "status" THEN Response(answer.status, "Target server error")
    ELSE IF answer.kind \in {"ECONNABORTED", "ETIMEDOUT"}
    THEN Response(408, "Request timeout")
    ELSE IF answer.kind = "ENOTFOUND" THEN Response(404, "Domain not found")
    ELSE Response(500, "Proxy server error")

\* validateStatus: (status) => status >= 200 && status < 400
validateStatus(status) == status >= 200 /\ status < 400

\* axios.get goes on: it follows a redirect to wherever it points, up to
\* maxRedirects of them, or settles
UpstreamAnswered(answer) ==
    /\ proxyPc = "awaitUpstream"
    /\ answersLog' = Append(answersLog, answer)
    /\ IF answer.kind = "redirect" /\ redirects < maxRedirects
       THEN /\ upstreamHosts' = Append(upstreamHosts, answer.to)
            /\ redirects' = redirects + 1
            /\ UNCHANGED <<proxyPc, proxyStatus, proxyResponses>>
       ELSE IF answer.kind = "status" /\ validateStatus(answer.status)
       THEN ProxyResponds(Response(answer.status, answer.body))
       ELSE ProxyResponds(ErrorResponse(answer))
    /\ UNCHANGED <<proxyUrl, exceptProxy>>

ProxyNext ==
    \/ \E url \in ProxyUrls : ProxyRequest(url)
    \/ \E answer \in UpstreamAnswers : UpstreamAnswered(answer)

ProxyInit == EngineInit /\ RestIdle

SpecProxy == ProxyInit /\ [][ProxyNext]_vars

\* axios.get settles: the upstream answers or the timeout ends the wait
ProxyFairness == WF_vars(\E answer \in UpstreamAnswers : UpstreamAnswered(answer))

SpecProxyFair == SpecProxy /\ ProxyFairness

\* ------------------------------------------------------------------------
\* Properties of findTrackMatches and searchTrack (specification Spec)
\* ------------------------------------------------------------------------

\* findTrackMatches has settled
MatchesDone == pc = "done" /\ caller = "findTrackMatches"

\* the tracks every search of this call resolved with, in order
RECURSIVE Candidates(_)
Candidates(log) ==
    IF log = <<>> THEN <<>>
    ELSE (IF Head(log).status = "resolved" THEN Head(log).value ELSE <<>>)
         \o Candidates(Tail(log))

\* a returned record without its isHighQuality tag
Untag(r) == Track(r.id, r.title, r.artist, r.duration)

\* the candidate scored 40 or more
Confident(t) == ScoreOf(source, t) >= 4000

\* C1: findTrackMatches never returns more than 5 records, whatever the
\* searches answered.
C1_ResultCap == MatchesDone => Len(outcome.value) <= 5

\* C1 witness: more than 5 distinct confident ids were found and 5 records
\* were returned.
C1_Witness ==
    /\ MatchesDone
    /\ Cardinality({allMatches.highQuality[i].id :
                       i \in DOMAIN allMatches.highQuality}) > 5
    /\ Len(outcome.value) = 5

\* the first search of this call was the artist+title search and it rejected
FirstSearchFailed ==
    /\ caller = "findTrackMatches"
    /\ hasArtist(source)
    /\ Len(searchLog) >= 1
    /\ searchLog[1].query = source.artists[1] \o <<" ">> \o source.name
    /\ searchLog[1].status = "rejected"

\* C3: when the artist+title search rejects, the title-only search is still
\* issued, and what it returns is scored, classified and returned.
C3_FailedSearchDoesNotAbort ==
    FirstSearchFailed =>
        /\ Len(searchLog) = 2
        /\ searchLog[2].query = source.name
        /\ Len(fetchLog) = 2
        /\ fetchLog[2].q = source.name
        /\ MatchesDone =>
              /\ outcome.status = "resolved"
              /\ searchLog[2].status = "resolved" =>
                    /\ (outcome.value = <<>>) = (searchLog[2].value = <<>>)
                    /\ \A i \in DOMAIN outcome.value :
                           /\ \E j \in DOMAIN searchLog[2].value :
                                  searchLog[2].value[j] = Untag(outcome.value[i])
                           /\ outcome.value[i].isHighQuality
                                  = Confident(Untag(outcome.value[i]))

\* C3 witness: the first search rejected, the second resolved with tracks,
\* and tracks were returned.
C3_Witness ==
    /\ FirstSearchFailed
    /\ MatchesDone
    /\ searchLog[2].status = "resolved"
    /\ outcome.value # <<>>

\* C4: findTrackMatches never rejects, and resolves to the empty sequence
\* when no search returned a candidate.
C4_NeverRejects ==
    MatchesDone =>
        /\ outcome.status = "resolved"
        /\ Candidates(searchLog) = <<>> => outcome.value = <<>>

\* C4 witness: every search of a call failed and the call resolved empty.
C4_Witness ==
    /\ MatchesDone
    /\ Len(searchLog) = 2
    /\ \A i \in DOMAIN searchLog : searchLog[i].status = "rejected"
    /\ outcome = Resolved(<<>>)

\* C6: the returned records come from one tier: all confident when any
\* candidate of any query scored 40 or more, exploratory only when none did.
C6_OneTier ==
    MatchesDone =>
        LET candidates == Candidates(searchLog)
            anyConfident == \E i \in DOMAIN candidates : Confident(candidates[i])
        IN \A i \in DOMAIN outcome.value :
               outcome.value[i].isHighQuality = anyConfident

\* C6 witness: confident and exploratory candidates were both found and only
\* confident ones were returned.
C6_Witness ==
    /\ MatchesDone
    /\ allMatches.highQuality # <<>>
    /\ allMatches.exploreMore # <<>>
    /\ outcome.value # <<>>
    /\ \A i \in DOMAIN outcome.value : outcome.value[i].isHighQuality

\* C7: when some query returned a candidate and every candidate scores below
\* 40, the result is non-empty and made of exploratory candidates only.
C7_FallbackTier ==
    MatchesDone =>
        LET candidates == Candidates(searchLog)
        IN (/\ candidates # <<>>
            /\ \A i \in DOMAIN candidates : ~Confident(candidates[i]))
           => /\ outcome.value # <<>>
              /\ \A i \in DOMAIN outcome.value :
                     /\ ~outcome.value[i].isHighQuality
                     /\ \E j \in DOMAIN candidates :
                            candidates[j] = Untag(outcome.value[i])

\* C7 witness: only exploratory candidates were found and some were returned.
C7_Witness ==
    /\ MatchesDone
    /\ Candidates(searchLog) # <<>>
    /\ allMatches.highQuality = <<>>
    /\ outcome.value # <<>>
    /\ \A i \in DOMAIN outcome.value : ~outcome.value[i].isHighQuality

\* a query that is missing, empty, only whitespace, or holds "undefined"
BadQuery(query) ==
    \/ query = Undefined
    \/ \A i \in DOMAIN query : IsSpace(query[i])
    \/ Includes(query, UndefinedText)

\* C8: a query that is empty, only whitespace or contains "undefined" is
\* never sent to the network: findTrackMatches does not call searchTrack
\* with it, and searchTrack rejects it before any fetch.
C8_BadQueryNeverSent ==
    /\ \A i \in DOMAIN fetchLog : ~BadQuery(fetchLog[i].q)
    /\ Len(fetchLog) = Cardinality({i \in DOMAIN searchLog : ~BadQuery(searchLog[i].query)})
    /\ \A i \in DOMAIN searchLog :
           BadQuery(searchLog[i].query) =>
               /\ searchLog[i].status = "rejected"
               /\ caller = "searchTrack"

\* C8 witness: a source whose artist is the text "undefined" was matched and
\* only its title query reached the network.
C8_Witness ==
    /\ MatchesDone
    /\ source.artists = <<UndefinedText>>
    /\ Len(fetchLog) = 1
    /\ fetchLog[1].q = source.name

\* the tier of allMatches a returned record belongs to
TierOf(r) ==
    IF r.isHighQuality THEN allMatches.highQuality ELSE allMatches.exploreMore

\* C9: within a tier a later occurrence of an id is kept in place of an
\* earlier one only if its score is not lower.
C9_LaterKeptOnlyIfNotLower ==
    MatchesDone =>
        \A n \in DOMAIN outcome.value :
            LET r == outcome.value[n]
                tier == TierOf(r)
            IN \A i \in DOMAIN tier, k \in DOMAIN tier :
                   (i < k /\ tier[i].id = r.id /\ tier[k] = r)
                   => ScoreOf(source, Untag(tier[k])) >= ScoreOf(source, Untag(tier[i]))

\* C9 as the code has it: a returned record is the last occurrence of its id
\* in its tier, whatever the scores of the occurrences.
C9_LastOccurrenceKept ==
    MatchesDone =>
        \A n \in DOMAIN outcome.value :
            \E k \in DOMAIN TierOf(outcome.value[n]) :
                /\ TierOf(outcome.value[n])[k] = outcome.value[n]
                /\ \A j \in DOMAIN TierOf(outcome.value[n]) :
                       j > k => TierOf(outcome.value[n])[j].id # outcome.value[n].id

\* C9 witness: an id was found twice in the confident tier, the second time
\* with a lower score, and the record returned for it is the second one.
C9_Witness ==
    /\ MatchesDone
    /\ \E n \in DOMAIN outcome.value :
           \E i \in DOMAIN allMatches.highQuality, k \in DOMAIN allMatches.highQuality :
               /\ i < k
               /\ allMatches.highQuality[i].id = outcome.value[n].id
               /\ allMatches.highQuality[k] = outcome.value[n]
               /\ ScoreOf(source, Untag(allMatches.highQuality[k]))
                      < ScoreOf(source, Untag(allMatches.highQuality[i]))

\* ------------------------------------------------------------------------
\* Properties of findBestMatches (specification SpecBest)
\* ------------------------------------------------------------------------

BestCalled == bestReturn # NotCalled

\* how many entries of a sequence satisfy Test
CountOf(seq, Test(_)) == Len(SelectSeq(seq, Test))

\* C5: every candidate findBestMatches scores is in exactly one of the two
\* tiers: in highQuality, tagged isHighQuality = TRUE, iff its score is 40 or
\* more, and otherwise in exploreMore, tagged FALSE.
C5_TierPartition ==
    BestCalled =>
        LET present == Present(bestArgs.results)
            high == bestLocals.highQuality
            low == bestLocals.exploreMore
        IN /\ Len(high) + Len(low) = Len(present)
           /\ \A i \in DOMAIN present :
                  LET inHigh == CountOf(high, LAMBDA m : m.track = present[i])
                      inLow == CountOf(low, LAMBDA m : m.track = present[i])
                  IN /\ inHigh + inLow = CountOf(present, LAMBDA r : r = present[i])
                     /\ inHigh = 0 \/ inLow = 0
           /\ \A j \in DOMAIN high :
                  /\ high[j].score >= 4000
                  /\ high[j].isHighQuality
                  /\ bestReturn.highQuality[j] = WithQuality(high[j].track, TRUE)
           /\ \A j \in DOMAIN low :
                  /\ low[j].score < 4000
                  /\ ~low[j].isHighQuality
                  /\ bestReturn.exploreMore[j] = WithQuality(low[j].track, FALSE)
           /\ Len(bestReturn.highQuality) = Len(high)
           /\ Len(bestReturn.exploreMore) = Len(low)

\* C5 witness: a candidate that scored exactly 40 is in highQuality and
\* another one is in exploreMore.
C5_Witness ==
    /\ BestCalled
    /\ \E j \in DOMAIN bestLocals.highQuality : bestLocals.highQuality[j].score = 4000
    /\ bestLocals.exploreMore # <<>>

\* the bonus of the claim, x 100, from the two durations in milliseconds
ClaimedBonus(sourceMs, candidateMs) ==
    IF Abs(sourceMs - candidateMs) < 5000 THEN 500
    ELSE IF Abs(sourceMs - candidateMs) < 15000 THEN 200
    ELSE 0

\* the scored candidate got the claimed bonus on top of its base score
BonusAsClaimed(m) ==
    (bestArgs.sourceTrack.duration # NoDuration /\ m.track.duration # 0)
    => m.score = BaseScore(bestArgs.sourceTrack, m.track)
                 + ClaimedBonus(bestArgs.sourceTrack.duration, m.track.duration * 1000)

\* C10: when both durations are known the score gains 5 if they differ by
\* less than 5 seconds, 2 if by less than 15, else nothing, with and without
\* artist scoring; a 295 s source and its exact 295 s match score 105.
C10_DurationBonus ==
    BestCalled =>
        /\ \A j \in DOMAIN bestLocals.highQuality :
               BonusAsClaimed(bestLocals.highQuality[j])
        /\ \A j \in DOMAIN bestLocals.exploreMore :
               BonusAsClaimed(bestLocals.exploreMore[j])
        /\ (/\ bestArgs.sourceTrack = SourceTrack(Hello, <<Adele>>, 295000)
            /\ bestArgs.results = <<Track(1, Hello, Adele, 295)>>)
           => bestLocals.highQuality[1].score = 10500

\* C10 witness: one call scored a candidate with the artist and one without,
\* both 295 s long against a 295 s source: 105 and 125.
C10_Witness ==
    /\ BestCalled
    /\ bestArgs.sourceTrack = SourceTrack(Hello, <<Adele>>, 295000)
    /\ bestArgs.results = <<Track(1, Hello, Adele, 295), Track(1, Hello, <<>>, 295)>>
    /\ bestLocals.highQuality[1].score = 10500
    /\ bestLocals.highQuality[2].score = 12500

\* ------------------------------------------------------------------------
\* Properties of LinkConverter (specification SpecUi)
\* ------------------------------------------------------------------------

BothSettled ==
    /\ conversions # <<>>
    /\ \A i \in 1..2 : conversions[i].status # "pending"

\* conversion i resolved while the other one rejected
ResolvedBesideRejected(i) ==
    /\ BothSettled
    /\ conversions[i].status = "resolved"
    /\ conversions[3 - i].status = "rejected"

\* the matches of conversion i are in the state result
Surfaced(i) ==
    /\ resultState # NoResult
    /\ resultState[MatchesField(conversions[i].hook)] = conversions[i].matches

\* C2: when the second of the two conversions of a source settles and one of
\* them rejected while the other resolved, the matches of the resolved one
\* are in the result.
C2_FailureDoesNotHideOther ==
    [][\A i \in 1..2 :
          (~BothSettled /\ ResolvedBesideRejected(i)') => Surfaced(i)']_vars

\* ------------------------------------------------------------------------
\* More properties of findBestMatches (specification SpecBest)
\* ------------------------------------------------------------------------

\* a string that is there and not empty
NonEmptyText(x) == x # Undefined /\ x # <<>>

\* the reference scoring function of the claim, x 100
ReferenceScore(s, t) ==
    IF s.artists # <<>> /\ NonEmptyText(s.artists[1]) /\ NonEmptyText(t.artist)
    THEN calculateSimilarity(s.artists[1], t.artist) * 55
         + calculateSimilarity(s.name, t.title) * 45
    ELSE IF /\ normalizeString(s.name) # <<>>
            /\ normalizeString(t.title) # <<>>
            /\ \/ Includes(normalizeString(s.name), normalizeString(t.title))
               \/ Includes(normalizeString(t.title), normalizeString(s.name))
    THEN calculateSimilarity(s.name, t.title) * 120
    ELSE calculateSimilarity(s.name, t.title) * 100

\* ReferenceScore, computed once for the arguments of the model
ReferenceTable ==
    [s \in BestSources |-> [t \in BestTracks |-> ReferenceScore(s, t)]]

\* the score of m without its duration bonus is the reference score
ScoredAsReference(m) ==
    m.score - DurationBonus(bestArgs.sourceTrack, m.track)
        = ReferenceTable[bestArgs.sourceTrack][m.track]

\* C11: before the duration bonus a score is artist similarity x 0.55 plus
\* title similarity x 0.45 when the source has a non-empty first artist and
\* the candidate an artist, and otherwise the title similarity, x 1.2
\* exactly when both normalized titles are non-empty and one contains the
\* other.
C11_ReferenceScore ==
    BestCalled =>
        /\ \A j \in DOMAIN bestLocals.highQuality :
               ScoredAsReference(bestLocals.highQuality[j])
        /\ \A j \in DOMAIN bestLocals.exploreMore :
               ScoredAsReference(bestLocals.exploreMore[j])

\* C11 witness: one call scored "Heavy" by Adele with the artist (73) and
\* "Hello World" without an artist (45 x 1.2 = 54) against "Hello" by Adele.
C11_Witness ==
    /\ BestCalled
    /\ bestArgs.sourceTrack = SourceTrack(Hello, <<Adele>>, NoDuration)
    /\ bestArgs.results = <<Track(1, Heavy, Adele, 0), Track(1, HelloWorld, <<>>, 0)>>
    /\ bestLocals.highQuality[1].score = 7300
    /\ bestLocals.highQuality[2].score = 5400

\* ------------------------------------------------------------------------
\* Scenario A (specification SpecScenario)
\* ------------------------------------------------------------------------

IsExactMatch(t) == t.id = 1 /\ t.title = Hello /\ t.artist = Adele

IsLiveVersion(t) == t.id = 2 /\ t.title = HelloLive /\ t.artist = Adele

\* the search "Adele Hello" answered the exact match alone and the search
\* "Hello" the live version alone
ScenarioA ==
    /\ MatchesDone
    /\ source.name = Hello
    /\ source.artists = <<Adele>>
    /\ Len(searchLog) = 2
    /\ \A i \in 1..2 : searchLog[i].status = "resolved" /\ Len(searchLog[i].value) = 1
    /\ searchLog[1].query = Adele \o <<" ">> \o Hello
    /\ searchLog[2].query = Hello
    /\ IsExactMatch(searchLog[1].value[1])
    /\ IsLiveVersion(searchLog[2].value[1])

\* no record of the scenario carries a duration, as the claim writes them
NoDurations ==
    /\ source.duration = NoDuration
    /\ searchLog[1].value[1].duration = 0
    /\ searchLog[2].value[1].duration = 0

\* both candidates are returned as confident, the exact match first
BothConfidentExactFirst ==
    outcome = Resolved(<<WithQuality(searchLog[1].value[1], TRUE),
                         WithQuality(searchLog[2].value[1], TRUE)>>)

\* C12 as stated: in Scenario A both candidates are returned as confident,
\* the exact match first, and "Hello (Live)" scores lower than the exact
\* match.
C12_LiveScoresLower ==
    (ScenarioA /\ NoDurations) =>
        /\ BothConfidentExactFirst
        /\ ScoreOf(source, searchLog[2].value[1]) < ScoreOf(source, searchLog[1].value[1])

\* C12 as the code has it: both candidates are returned as confident, the
\* exact match first, and the two scores differ by their duration bonuses
\* alone: "Hello (Live)" normalizes to "hello", its title similarity is 100.
C12_LiveScoresAlike ==
    ScenarioA =>
        /\ BothConfidentExactFirst
        /\ ScoreOf(source, searchLog[2].value[1])
               - DurationBonus(source, searchLog[2].value[1]) = 10000
        /\ ScoreOf(source, searchLog[1].value[1])
               - DurationBonus(source, searchLog[1].value[1]) = 10000
        /\ NoDurations =>
               ScoreOf(source, searchLog[2].value[1])
                   = ScoreOf(source, searchLog[1].value[1])

\* C12 witness: Scenario A without durations has run and both candidates
\* scored 100.
C12_Witness ==
    /\ ScenarioA
    /\ NoDurations
    /\ BothConfidentExactFirst
    /\ ScoreOf(source, searchLog[1].value[1]) = 10000
    /\ ScoreOf(source, searchLog[2].value[1]) = 10000

\* ------------------------------------------------------------------------
\* Properties of the backend proxy (specification SpecProxy)
\* ------------------------------------------------------------------------

\* the allowed-domains list as the documentation gives it
ListedDomains ==
    {<<"open", "spotify", "com">>, <<"api", "spotify", "com">>,
     <<"oembed", "spotify", "com">>, <<"api", "deezer", "com">>,
     <<"link", "deezer", "com">>, <<"www", "deezer", "com">>}

\* C13: /proxy sends requests only to hosts on the allowed-domains list,
\* redirects included, and answers a URL whose host is not on the list with
\* 403 without sending anything.
C13_OnlyListedHosts ==
    /\ \A i \in DOMAIN upstreamHosts : upstreamHosts[i] \in ListedDomains
    /\ (proxyPc # "idle" /\ proxyUrl.valid /\ proxyUrl.hostname \notin ListedDomains)
       => (proxyStatus = 403 /\ upstreamHosts = <<>>)

\* ------------------------------------------------------------------------
\* Properties of calculateSimilarity and normalizeString (specification
\* SpecStrings)
\* ------------------------------------------------------------------------

SimilarityReturned == fnName = "calculateSimilarity" /\ fnResult # NotCalled

NormalizeReturned == fnName = "normalizeString" /\ fnResult # NotCalled

\* C14: calculateSimilarity returns an integer from 0 to 100 for every pair
\* of inputs.
C14_SimilarityBounds ==
    SimilarityReturned => fnResult.value \in 0..100

\* C14 witness: "a" against ten times "a" gave 10, and the call was not one
\* of equal strings.
C14_Witness ==
    /\ SimilarityReturned
    /\ fnArgs = <<<<"a">>, TenTimesA>>
    /\ fnResult.value = 10

\* C15: calculateSimilarity(a, b) = calculateSimilarity(b, a).
C15_SimilaritySymmetric ==
    SimilarityReturned =>
        fnResult.value = calculateSimilarity(fnArgs[2], fnArgs[1])

\* C15 witness: two different strings of different lengths were compared
\* and the result is neither 0 nor 100.
C15_Witness ==
    /\ SimilarityReturned
    /\ fnArgs = <<<<"a", "b">>, <<"a", "b", "a">>>>
    /\ fnResult.value = 67

\* C16: normalizeString(normalizeString(s)) = normalizeString(s).
C16_NormalizeIdempotent ==
    NormalizeReturned => normalizeString(fnResult.value) = fnResult.value

\* C16 witness: a string with a nested group and an unbalanced parenthesis
\* was normalized to something other than itself.
C16_Witness ==
    /\ NormalizeReturned
    /\ fnArgs = <<<<"(", "(", "a", ")", "b", ")">>>>
    /\ fnResult.value = <<"b">>

\* how many times character c occurs in str
Occurrences(str, c) == Cardinality({i \in DOMAIN str : str[i] = c})

\* a string with no parenthesis and no bracket
NoGroups(str) ==
    \A i \in DOMAIN str : str[i] \notin {"(", ")", "[", "]"}

\* C17: a letter with a diacritic stays in the normalized string, only its
\* case is folded: each é or É outside a group gives an é.
C17_DiacriticsKept ==
    (NormalizeReturned /\ fnArgs[1] # Undefined /\ NoGroups(fnArgs[1])) =>
        Occurrences(fnResult.value, "é")
            = Occurrences(fnArgs[1], "é") + Occurrences(fnArgs[1], "É")

\* ------------------------------------------------------------------------
\* Properties of the search links (specification SpecLinks)
\* ------------------------------------------------------------------------

LinksReturned == fnName \in LinkFunctions /\ fnResult # NotCalled

\* the title the links are built from
LinkTitle ==
    IF fnName = "YouTubeMusicService.findTrackMatches"
    THEN normalizeForSearch(fnArgs[1].name)
    ELSE IF Falsy(fnArgs[1].name) THEN <<>> ELSE fnArgs[1].name

C19_RequestsAskForAtMostFive ==
    \A i \in DOMAIN fetchLog : fetchLog[i].limit <= 5

\* ------------------------------------------------------------------------
\* findTrackMatches on a source without title and artist (specification
\* Spec)
\* ------------------------------------------------------------------------

\* a source whose title is empty or missing and that has no first artist
Degenerate(sourceTrack) ==
    /\ sourceTrack.name \in {<<>>, Undefined}
    /\ sourceTrack.artists \in {<<>>, <<<<>>>>}

\* C20: on a degenerate source every query is filtered out, no search call
\* is made, and findTrackMatches resolves with the empty sequence.
C20_DegenerateSourceGivesNothing ==
    (caller = "findTrackMatches" /\ Degenerate(source)) =>
        /\ pc = "done"
        /\ searchLog = <<>>
        /\ fetchLog = <<>>
        /\ outcome = Resolved(<<>>)

\* C20 witness: findTrackMatches was called with a source that has no title
\* property and an empty artists array, and has settled.
C20_Witness ==
    /\ MatchesDone
    /\ source = SourceTrack(Undefined, <<>>, NoDuration)
    /\ outcome = Resolved(<<>>)

\* ------------------------------------------------------------------------
\* Order of the searches of findTrackMatches (specification Spec)
\* ------------------------------------------------------------------------

\* the queries of a source in priority order: artist and title when there
\* is a primary artist, then the title
PriorityQueries(sourceTrack) ==
    (IF sourceTrack.artists # <<>> /\ sourceTrack.artists[1] \notin {<<>>, Undefined}
     THEN <<sourceTrack.artists[1] \o <<" ">> \o TemplateText(sourceTrack.name)>>
     ELSE <<>>)
    \o <<sourceTrack.name>>

\* the queries of the search calls made so far
QueriesIssued == [i \in DOMAIN searchLog |-> searchLog[i].query]

IsPrefix(p, q) == Len(p) <= Len(q) /\ p = SubSeq(q, 1, Len(p))

\* C21: findTrackMatches issues its queries in priority order and one at a
\* time: artist+title first, the title only after the first search has
\* settled, and at most two search calls.
C21_QueriesInOrder ==
    caller = "findTrackMatches" =>
        /\ Len(searchLog) <= 2
        /\ IsPrefix(QueriesIssued,
                    SelectSeq(PriorityQueries(source), LAMBDA q : ~BadQuery(q)))
        /\ \A i \in 1..(Len(searchLog) - 1) : searchLog[i].status # "pending"
        /\ pc = "done" => \A i \in DOMAIN searchLog : searchLog[i].status # "pending"

\* C21 witness: the title search is pending after the artist+title search
\* has resolved with a track.
C21_Witness ==
    /\ caller = "findTrackMatches"
    /\ Len(searchLog) = 2
    /\ searchLog[1].query = Adele \o <<" ">> \o Hello
    /\ searchLog[1].status = "resolved"
    /\ searchLog[1].value # <<>>
    /\ searchLog[2].query = Hello
    /\ searchLog[2].status = "pending"

\* ------------------------------------------------------------------------
\* Properties of fetchWithProxy (specification SpecRetryFair)
\* ------------------------------------------------------------------------

\* the entries of one kind in the log
EntriesOf(kind) == SelectSeq(attemptLog, LAMBDA e : e.kind = kind)

\* what the log must look like: request n is followed by its result, a
\* failure that is not the last entry by a wait of retryDelay, and a wait by
\* request n + 1; nothing follows a success
LogWellFormed ==
    \A i \in DOMAIN attemptLog :
        LET e == attemptLog[i]
        IN /\ i = 1 => (e.kind = "attempt" /\ e.n = 0)
           /\ (e.kind = "attempt" /\ i < Len(attemptLog)) =>
                  (attemptLog[i + 1].kind \in {"succeeded", "failed"}
                       /\ attemptLog[i + 1].n = e.n)
           /\ e.kind = "succeeded" => i = Len(attemptLog)
           /\ (e.kind = "failed" /\ i < Len(attemptLog)) =>
                  (attemptLog[i + 1].kind = "wait"
                       /\ attemptLog[i + 1].n = fwOptions.retryDelay)
           /\ (e.kind = "wait" /\ i < Len(attemptLog)) =>
                  (attemptLog[i + 1].kind = "attempt"
                       /\ attemptLog[i + 1].n = attemptLog[i - 1].n + 1)

\* how the promise settled, against the log
SettledAsLogged ==
    fwPc = "done" =>
        IF fwOptions.maxRetries < 0
        THEN attemptLog = <<>> /\ fwOutcome.status = "rejected"
        ELSE LET last == attemptLog[Len(attemptLog)]
             IN IF last.kind = "succeeded"
                THEN fwOutcome = [status |-> "resolved", value |-> last.value]
                ELSE /\ last.kind = "failed"
                     /\ Len(EntriesOf("attempt")) = fwOptions.maxRetries + 1
                     /\ fwOutcome = [status |-> "rejected", value |-> last.value]

RetrySafety ==
    fwPc # "idle" =>
        /\ Len(EntriesOf("attempt")) <= fwOptions.maxRetries + 1
        /\ LogWellFormed
        /\ SettledAsLogged

\* C22: fetchWithProxy makes at most maxRetries + 1 attempts (3 by
\* default), returns the data of the first success and stops there, waits
\* retryDelay between a failure and the next attempt, rejects with the error
\* of the last attempt when that fails, and terminates when every attempt
\* settles.
C22_BoundedRetries ==
    /\ []RetrySafety
    /\ (fwPc = "awaitAttempt") ~> (fwPc = "done")

\* C22 witness: with the default options three attempts failed with
\* different errors and the promise rejected with the third one.
C22_Witness ==
    /\ fwPc = "done"
    /\ fwOptions = [maxRetries |-> 2, retryDelay |-> 1000]
    /\ Len(EntriesOf("attempt")) = 3
    /\ Len(EntriesOf("wait")) = 2
    /\ Len(EntriesOf("failed")) = 3
    /\ EntriesOf("failed")[1].value = "timeout"
    /\ EntriesOf("failed")[3].value = "network"
    /\ fwOutcome = [status |-> "rejected", value |-> "network"]

\* ------------------------------------------------------------------------
\* The loading state of LinkConverter (specifications SpecUiFair, SpecUi)
\* ------------------------------------------------------------------------

\* C23: every conversion that is started (loading set to true) eventually
\* sets loading back to false, for track and album URLs of every platform,
\* whether the conversions resolve, reject or throw.
C23_LoadingEnds == loading ~> ~loading

\* the condition ConversionResults is rendered under: result && !loading
ResultShown == resultState # NoResult /\ ~loading

\* C24: in every reachable state of LinkConverter a result and an error
\* message are never both present, and no result is shown while loading.
C24_ResultOrErrorNotBoth ==
    /\ ~(resultState # NoResult /\ error # "")
    /\ loading => ~ResultShown

\* ------------------------------------------------------------------------
\* The responses of /proxy (specification SpecProxyFair)
\* ------------------------------------------------------------------------

\* what settled axios.get: the last thing that came back from upstream
LastAnswer == answersLog[Len(answersLog)]

\* the status the documentation gives for the request and what came back
DocumentedStatus ==
    IF ~proxyUrl.given \/ ~proxyUrl.valid THEN 400
    ELSE IF ~isAllowed(proxyUrl.hostname) THEN 403
    ELSE IF LastAnswer.kind = "status" THEN LastAnswer.status
    ELSE IF LastAnswer.kind \in {"ECONNABORTED", "ETIMEDOUT"} THEN 408
    ELSE IF LastAnswer.kind = "ENOTFOUND" THEN 404
    ELSE 500

ProxyAnswersAsDocumented ==
    /\ proxyPc # "done" => proxyResponses = <<>>
    /\ proxyPc = "done" =>
          /\ Len(proxyResponses) = 1
          /\ proxyResponses[1].status = DocumentedStatus
          /\ (isAllowed(proxyUrl.hostname) /\ LastAnswer.kind = "status" /\ LastAnswer.status = 200)
                => proxyResponses[1].body = LastAnswer.body

\* C25: every request to /proxy gets exactly one response, with status 400
\* for a missing or invalid url, 403 for a domain that is not allowed, the
\* upstream status for an upstream error status, 408 on timeout, 404 when the
\* domain is not resolved, 500 for another failure, and the upstream status
\* and body on success.
C25_OneDocumentedResponse ==
    /\ []ProxyAnswersAsDocumented
    /\ (proxyPc = "awaitUpstream") ~> (proxyPc = "done")

\* a request that was redirected and then timed out got its 408
C25_Witness ==
    /\ proxyPc = "done"
    /\ redirects > 0
    /\ LastAnswer.kind = "ETIMEDOUT"
    /\ proxyResponses = <<Response(408, "Request timeout")>>

\* ------------------------------------------------------------------------
\* Deezer short links (specification SpecTrack)
\* ------------------------------------------------------------------------

\* getTrack('short:...') has settled after the page gave a track id
ShortLinkWithIdDone ==
    /\ gtPc = "done"
    /\ gtTrackId.short
    /\ gtPage # NotCalled
    /\ Len(gtFetches) = 2

\* C26: when the page of a short link yields a track id and fetching the
\* full track fails, getTrackFromShortLink falls back to what it parsed from
\* the page; getTrack for a 'short:' id never rejects.
C26_ShortLinkNeverRejects ==
    (gtPc = "done" /\ gtTrackId.short) => gtOutcome.status = "resolved"

\* the full track was fetched after the page
C26_Witness == ShortLinkWithIdDone /\ gtOutcome.status = "resolved"

\* ------------------------------------------------------------------------
\* The albums findAlbumMatches returns (specification SpecSearch)
\* ------------------------------------------------------------------------

AlbumsDone == pc = "done" /\ caller = "findAlbumMatches"

\* the score of a returned album against the source, from its own fields
ReturnedScore(album) ==
    AlbumScore(source, AlbumResult(album.id, album.title,
                                   IF album.artists = <<>> THEN Undefined
                                   ELSE album.artists[1]))

\* the tier the result is to come from
TierToReturn ==
    IF allMatches.highQuality # <<>> THEN allMatches.highQuality
    ELSE allMatches.exploreMore

\* C27: findAlbumMatches never rejects and returns at most 5 albums, all
\* from the confident tier (score >= 40) when that tier is not empty and all
\* from the exploratory tier otherwise, in non-increasing score order.
C27_AlbumsFromOneTierInOrder ==
    AlbumsDone =>
        /\ outcome.status = "resolved"
        /\ Len(outcome.value) <= 5
        /\ \A j \in DOMAIN allMatches.highQuality :
               allMatches.highQuality[j].score >= 4000
        /\ \A j \in DOMAIN allMatches.exploreMore :
               allMatches.exploreMore[j].score < 4000
        /\ \A i \in DOMAIN outcome.value :
               /\ \E j \in DOMAIN TierToReturn :
                      TierToReturn[j].album = outcome.value[i]
               /\ (ReturnedScore(outcome.value[i]) >= 4000) = (allMatches.highQuality # <<>>)
        /\ \A i, j \in DOMAIN outcome.value :
               i < j => ReturnedScore(outcome.value[i]) >= ReturnedScore(outcome.value[j])

\* six confident albums came back with the weakest first: five are
\* returned, the best first
C27_Witness ==
    /\ AlbumsDone
    /\ Len(allMatches.highQuality) = 6
    /\ allMatches.highQuality[1].score < allMatches.highQuality[6].score
    /\ Len(outcome.value) = 5
    /\ ReturnedScore(outcome.value[1]) > ReturnedScore(outcome.value[5])

\* ------------------------------------------------------------------------
\* Duplicates in the result of findTrackMatches (specification Spec)
\* ------------------------------------------------------------------------

\* C28: no two records returned by findTrackMatches have the same Deezer id,
\* also when both queries return the same track or one query returns it
\* twice.
C28_DistinctIds ==
    (MatchesDone /\ outcome.status = "resolved") =>
        \A i, j \in DOMAIN outcome.value :
            i # j => outcome.value[i].id # outcome.value[j].id

\* the first query returned a track twice, the second returned it again,
\* and more than one record is returned
C28_Witness ==
    /\ MatchesDone
    /\ outcome.status = "resolved"
    /\ Len(outcome.value) >= 2
    /\ Len(searchLog) = 2
    /\ \A k \in 1..2 : searchLog[k].status = "resolved"
    /\ \E i, j \in DOMAIN searchLog[1].value, k \in DOMAIN searchLog[2].value :
           /\ i < j
           /\ searchLog[1].value[i].id = searchLog[1].value[j].id
           /\ searchLog[1].value[i].id = searchLog[2].value[k].id
           /\ \E m \in DOMAIN outcome.value :
                  outcome.value[m].id = searchLog[1].value[i].id

\* ------------------------------------------------------------------------
\* Conversions in flight in LinkConverter (specification SpecUi)
\* ------------------------------------------------------------------------

\* a convert call of the conversion started last is pending
CurrentInFlight == PendingCount(conversions) > 0

StartsConversion ==
    \/ abandoned' > abandoned
    \/ Len(conversions') # Len(conversions)
    \/ \E i \in DOMAIN conversions :
           /\ i \in DOMAIN conversions'
           /\ \/ conversions'[i].hook # conversions[i].hook
              \/ conversions'[i].url # conversions[i].url
              \/ conversions[i].status # "pending" /\ conversions'[i] # conversions[i]

\* this step is the completion of a convert call whose Promise.all has
\* settled before
OlderCompletion ==
    \/ abandoned' < abandoned
    \/ /\ promiseAll # "pending"
       /\ \E i \in DOMAIN conversions :
              /\ i \in DOMAIN conversions'
              /\ conversions[i].status = "pending"
              /\ conversions'[i].status # "pending"

\* what the user sees of a conversion
Shown == <<loading, error, resultState>>

IsWordText(str) == str # <<>> /\ \A k \in DOMAIN str : IsWord(str[k])

ClosingOf(open) == IF open = "(" THEN ")" ELSE "]"

\* str is "a (x) b" or "a [x] b" with the group from i + 1 to j: a and b
\* are words, x has no closing character
GroupBetweenWords(str, i, j) ==
    /\ 1 < i /\ i + 1 < j /\ j + 1 < Len(str)
    /\ str[i] = " " /\ str[j + 1] = " "
    /\ str[i + 1] \in {"(", "["}
    /\ str[j] = ClosingOf(str[i + 1])
    /\ \A k \in (i + 2)..(j - 1) : str[k] # str[j]
    /\ IsWordText(SubSeq(str, 1, i - 1))
    /\ IsWordText(SubSeq(str, j + 2, Len(str)))

\* "a b" for "a (x) b"
WithoutGroup(str, i, j) == SubSeq(str, 1, i) \o SubSeq(str, j + 2, Len(str))

\* C30: removing a parenthetical or bracketed group never joins the words
\* around it: normalizeString("a (x) b") and normalizeString("a [x] b")
\* equal normalizeString("a b").
C30_GroupDoesNotJoinWords ==
    (NormalizeReturned /\ fnArgs[1] # Undefined) =>
        \A i, j \in DOMAIN fnArgs[1] :
            GroupBetweenWords(fnArgs[1], i, j) =>
                fnResult.value = normalizeString(WithoutGroup(fnArgs[1], i, j))

====
